---- MODULE Spec2Model ----
(***************************************************************************)
(* Model of the Solana transaction bundler: the RPC endpoint pool          *)
(* (bundler-core/src/rpc.rs), the instruction validator                    *)
(* (bundler-core/src/simulation.rs), the fee bump (bundler-core/src/       *)
(* fees.rs), the signer set (bundler-core/src/signing.rs) and the bundle   *)
(* orchestrator (bundler-core/src/bundler.rs).                             *)
(*                                                                         *)
(* Timestamps (last_success, last_failure), latencies and log output are   *)
(* not modelled: no decision in the code reads them.                       *)
(***************************************************************************)
EXTENDS Integers, Sequences, FiniteSets, TLC

(***************************************************************************)
(* Bounds of the model.                                                    *)
(***************************************************************************)
\* rpc.max_retries is drawn from 0..MaxRetries (default_max_retries is 3)
MaxRetries == 2
\* rpc.max_retries of the pool that serves one call on its own
MaxSoloRetries == 5
\* number of configured endpoints is drawn from 0..MaxEndpoints
MaxEndpoints == 2
\* endpoint weights are drawn from 1..MaxWeight
MaxWeight == 2
\* tasks calling execute_with_failover concurrently with task 0
ExtraCallers == 1
\* calls of execute_with_failover a task of the pool makes, one after another
MaxCalls == 1
\* calls of health_check, which may overlap
MaxSweeps == 2

(***************************************************************************)
(* Program constants.                                                      *)
(***************************************************************************)
\* record_failure marks an endpoint unhealthy at this many consecutive failures
UnhealthyThreshold == 3

VARIABLES
    endpoints,      \* SolanaRpcClient.endpoints: sequence of [url, weight]
    max_retries,    \* RpcConfig.max_retries
    backoff_base_ms, \* RpcConfig.backoff_base_ms
    backoff_max_ms, \* RpcConfig.backoff_max_ms
    health_status,  \* SolanaRpcClient.health_status: url -> EndpointHealth
    calls,          \* one execute_with_failover activation per task (0 = the bundle)
    sweeps,         \* health_check: calls started, and per endpoint the spawned
                    \* probes that have not finished
    streak,         \* history: per url, failures recorded since the last success
    lastOutcome,    \* history: per url, the latest recorded outcome ("S"/"F"/"none")
    solo,           \* history: all outcomes so far are failures of task 0's first call
    config,         \* BundlerConfig: [security, fees, signing]
    request,        \* the BundleRequest handed to process_bundle
    fee_history,    \* FeeManager.fee_history: FeeDataPoint records, oldest first
    frame,          \* process_bundle: its position and local variables
    outcome,        \* what process_bundle returned: [kind, error, response]
    hist,           \* history: RPCs issued, transactions simulated, signed, sent,
                    \* and those whose confirmation wait expired
    now,            \* the clock Utc::now() reads
    fee_calls,      \* one FeeManager::calculate_fee activation per fee task
    direct_call     \* a direct call of bump_fee or calculate_percentile_fee, with its result

poolVars == <<endpoints, max_retries, backoff_base_ms, backoff_max_ms,
                   health_status, calls, sweeps,
              streak, lastOutcome, solo>>

bundleVars == <<config, request, fee_history, frame, outcome, hist>>

feeVars == <<now, fee_calls, direct_call>>

vars == <<poolVars, bundleVars, feeVars>>

Tasks == 0..ExtraCallers

(***************************************************************************)
(* EndpointHealth::default                                                 *)
(***************************************************************************)
DefaultHealth == [healthy |-> TRUE, consecutive_failures |-> 0]

IdleCall == [pc |-> "idle", op |-> "none", attempts |-> 0, max_attempts |-> 0,
             endpoint |-> 0, invoked |-> 0, backoff |-> 0,
             fallback |-> FALSE, begun |-> 0]

(***************************************************************************)
(* SolanaRpcClient::new: health_status (like clients) is a map keyed by    *)
(* url with one insert per configured endpoint, so endpoints that share a  *)
(* url share one record.                                                   *)
(***************************************************************************)
UrlsOf(eps) == {eps[i].url : i \in DOMAIN eps}

NewHealthStatus(eps) == [u \in UrlsOf(eps) |-> DefaultHealth]

\* the record the pool keeps for its e-th endpoint
HealthOf(e) == health_status[endpoints[e].url]

(***************************************************************************)
(* SolanaRpcClient::get_best_endpoint.  Returns the index of the chosen    *)
(* endpoint, 0 for Err(Rpc("No RPC endpoints configured")).                *)
(* The healthy endpoints are stably sorted by descending weight and the    *)
(* first is taken (the earliest configured among equal weights); with no   *)
(* healthy endpoint, Iterator::max_by_key returns the last maximum.        *)
(***************************************************************************)
\* Vec::sort_by(|a, b| b.weight.cmp(&a.weight)): a stable sort, here by
\* insertion, of a sequence of endpoint indices by descending weight
RECURSIVE InsertByWeight(_, _, _)
InsertByWeight(eps, sorted, i) ==
    IF sorted = <<>> THEN <<i>>
    ELSE IF eps[Head(sorted)].weight >= eps[i].weight
         THEN <<Head(sorted)>> \o InsertByWeight(eps, Tail(sorted), i)
         ELSE <<i>> \o sorted

RECURSIVE SortByWeightDesc(_, _)
SortByWeightDesc(eps, s) ==
    IF s = <<>> THEN <<>>
    ELSE InsertByWeight(eps, SortByWeightDesc(eps, SubSeq(s, 1, Len(s) - 1)),
                        s[Len(s)])

\* Iterator::max_by_key(|endpoint| endpoint.weight): the last element of
\* maximal key, 0 for None
RECURSIVE MaxByWeight(_, _, _)
MaxByWeight(eps, i, best) ==
    IF i > Len(eps) THEN best
    ELSE MaxByWeight(eps, i + 1,
                     IF best = 0 \/ eps[i].weight >= eps[best].weight
                     THEN i ELSE best)

AllIndices(eps) == [i \in 1..Len(eps) |-> i]

\* mutant of GetBestEndpoint: the health filter is dropped
GetBestEndpoint_IgnoreHealth(eps, h) ==
    IF eps = <<>> THEN 0 ELSE SortByWeightDesc(eps, AllIndices(eps))[1]

GetBestEndpoint(eps, h) ==
    LET healthy_endpoints ==
            SelectSeq(AllIndices(eps), LAMBDA i : h[eps[i].url].healthy)
    IN  IF healthy_endpoints = <<>>
        THEN MaxByWeight(eps, 1, 0)
        ELSE SortByWeightDesc(eps, healthy_endpoints)[1]

(***************************************************************************)
(* SolanaRpcClient::record_success / record_failure, and the identical     *)
(* updates made under the write lock by the probes of health_check.        *)
(***************************************************************************)
\* mutant of RecordSuccess: the count of failures is not cleared
RecordSuccess_KeepsCount(h, endpoint_url) ==
    [h EXCEPT ![endpoint_url] =
        [healthy |-> TRUE,
         consecutive_failures |-> h[endpoint_url].consecutive_failures]]

RecordSuccess(h, endpoint_url) ==
    [h EXCEPT ![endpoint_url] = [healthy |-> TRUE, consecutive_failures |-> 0]]

\* mutant of RecordFailure: the endpoint is marked one failure too late
RecordFailure_Late(h, endpoint_url) ==
    LET n == h[endpoint_url].consecutive_failures + 1
    IN  [h EXCEPT ![endpoint_url] =
            [healthy |-> IF n > UnhealthyThreshold THEN FALSE
                         ELSE h[endpoint_url].healthy,
             consecutive_failures |-> n]]

RecordFailure(h, endpoint_url) ==
    LET n == h[endpoint_url].consecutive_failures + 1
    IN  [h EXCEPT ![endpoint_url] =
            [healthy |-> IF n >= UnhealthyThreshold THEN FALSE
                         ELSE h[endpoint_url].healthy,
             consecutive_failures |-> n]]

\* history: an outcome is recorded under endpoint_url
LogOutcome(endpoint_url, ok) ==
    /\ streak' = [streak EXCEPT ![endpoint_url] = IF ok THEN 0 ELSE @ + 1]
    /\ lastOutcome' = [lastOutcome EXCEPT ![endpoint_url] =
                            IF ok THEN "S" ELSE "F"]

(***************************************************************************)
(* SolanaRpcClient::execute_with_failover, one activation per task.        *)
(*   BeginCall    lines 133-135: attempts = 0, max_attempts = retries + 1  *)
(*   PickEndpoint lines 137-142: loop test, get_best_endpoint              *)
(*   CompleteCall lines 144-162: operation(client), record, loop or return *)
(* The calls of the tasks interleave: any number of them may be between    *)
(* PickEndpoint and CompleteCall at once.                                  *)
(***************************************************************************)
\* mutant of StartedCall: one attempt too many
StartedCall_OffByOne(op) ==
    [IdleCall EXCEPT !.pc = "loop", !.op = op, !.max_attempts = max_retries + 2]

\* max_retries + 1 is a u32 addition; the model draws max_retries from
\* 0..MaxSoloRetries, far below the width where it would overflow.
StartedCall(op) ==
    [IdleCall EXCEPT !.pc = "loop", !.op = op, !.max_attempts = max_retries + 1]

\* get_best_endpoint 113-121: no endpoint passed the health filter
NoneHealthy(h) == \A u \in DOMAIN h : ~h[u].healthy

BeginCall(t) ==
    /\ calls[t].pc \in {"idle", "ok", "err"}
    /\ calls[t].begun < MaxCalls
    /\ solo' = (solo /\ t = 0 /\ calls[t].pc = "idle")
    /\ calls' = [calls EXCEPT ![t] =
                    [StartedCall("get_latest_blockhash")
                        EXCEPT !.begun = calls[t].begun + 1]]
    /\ UNCHANGED <<endpoints, max_retries, backoff_base_ms, backoff_max_ms,
                   health_status, sweeps,
                   streak, lastOutcome>>
    /\ UNCHANGED <<bundleVars, feeVars>>

PickEndpoint(t) ==
    /\ calls[t].pc = "loop"
    /\ calls[t].attempts < calls[t].max_attempts
    /\ LET e == GetBestEndpoint(endpoints, health_status)
       IN  calls' = [calls EXCEPT ![t] =
                        IF e = 0 THEN [@ EXCEPT !.pc = "err", !.backoff = 0]
                        ELSE [@ EXCEPT !.pc = "picked", !.endpoint = e,
                                       !.backoff = 0,
                                       !.fallback = NoneHealthy(health_status)]]
    /\ UNCHANGED <<endpoints, max_retries, backoff_base_ms, backoff_max_ms,
                   health_status, sweeps,
                   streak, lastOutcome, solo>>
    /\ UNCHANGED <<bundleVars, feeVars>>

\* SolanaRpcClient::calculate_backoff 327-333: the interval starts at
\* backoff_base_ms and is doubled and held to backoff_max_ms attempt - 1 times
RECURSIVE CurrentInterval(_)
CurrentInterval(attempt) ==
    IF attempt <= 1 THEN backoff_base_ms
    ELSE IF CurrentInterval(attempt - 1) * 2 < backoff_max_ms
         THEN CurrentInterval(attempt - 1) * 2
         ELSE backoff_max_ms

\* SolanaRpcClient::calculate_backoff 335-339: the delays the jitter can
\* produce.  With c the interval and r = rand::random::<f64>() a multiple of
\* 2^-53 in [0, 1), the delay is (c + (r - 0.5) * 2 * (0.25 * c)) as u64.
\* r = 0 gives 0.75 * c exactly, truncated to 3c \div 4.  The largest r gives
\* a jitter within 2 ulp below 0.25 * c, and c plus that rounds to 1.25 * c
\* whenever 1.25 * c is a whole number, so the largest delay is 5c \div 4.
CalculateBackoff(attempt) ==
    LET c == CurrentInterval(attempt)
    IN  ((3 * c) \div 4)..((5 * c) \div 4)

\* execute_with_failover 156-160: the delays that may be slept after the n-th
\* failure, 0 when the loop is left without sleeping
Slept(n, max_attempts) ==
    IF n < max_attempts THEN CalculateBackoff(n) ELSE {0}

CompleteCall(t, ok) ==
    /\ calls[t].pc = "picked"
    /\ LogOutcome(endpoints[calls[t].endpoint].url, ok)
    /\ solo' = (solo /\ t = 0 /\ ~ok)
    /\ LET endpoint_url == endpoints[calls[t].endpoint].url
           n == calls[t].attempts + 1
       IN  IF ok
           THEN /\ health_status' = RecordSuccess(health_status, endpoint_url)
                /\ calls' = [calls EXCEPT ![t] =
                        [@ EXCEPT !.pc = "ok", !.endpoint = 0,
                                  !.invoked = @ + 1, !.fallback = FALSE]]
           ELSE /\ health_status' = RecordFailure(health_status, endpoint_url)
                /\ \E delay \in Slept(n, calls[t].max_attempts) :
                     calls' = [calls EXCEPT ![t] =
                        [@ EXCEPT !.pc = IF n < calls[t].max_attempts
                                         THEN "loop" ELSE "err",
                                  !.attempts = n, !.endpoint = 0,
                                  !.invoked = @ + 1, !.fallback = FALSE,
                                  !.backoff = delay]]
    /\ UNCHANGED <<endpoints, max_retries, backoff_base_ms, backoff_max_ms,
                   sweeps>>
    /\ UNCHANGED <<bundleVars, feeVars>>

(***************************************************************************)
(* SolanaRpcClient::health_check: one probe task is spawned per configured *)
(* endpoint; each probe records its outcome under its url, under the write *)
(* lock; the sweep returns when every probe has been joined.  health_check *)
(* takes &self and excludes nothing, so sweeps overlap each other and the  *)
(* calls.                                                                  *)
(***************************************************************************)
NoSweeps(eps) == [started |-> 0, pending |-> [e \in DOMAIN eps |-> 0]]

StartSweep ==
    /\ sweeps.started < MaxSweeps
    /\ sweeps' = [started |-> sweeps.started + 1,
                  pending |-> [e \in DOMAIN endpoints |-> sweeps.pending[e] + 1]]
    /\ UNCHANGED <<endpoints, max_retries, backoff_base_ms, backoff_max_ms,
                   health_status, calls, streak,
                   lastOutcome, solo>>
    /\ UNCHANGED <<bundleVars, feeVars>>

Probe(e, ok) ==
    /\ sweeps.pending[e] > 0
    /\ LogOutcome(endpoints[e].url, ok)
    /\ solo' = FALSE
    /\ health_status' = IF ok THEN RecordSuccess(health_status, endpoints[e].url)
                        ELSE RecordFailure(health_status, endpoints[e].url)
    /\ sweeps' = [sweeps EXCEPT !.pending[e] = @ - 1]
    /\ UNCHANGED <<endpoints, max_retries, backoff_base_ms, backoff_max_ms,
                   calls>>
    /\ UNCHANGED <<bundleVars, feeVars>>

(***************************************************************************)
(* Values of the orchestrator.                                             *)
(*   Option<T> is a sequence of length 0 (None) or 1 (Some).               *)
(*   BundlerError is [kind, msg]; msg keeps the words the claims refer to. *)
(*   Pubkey::default() is the all-zero key, the id of the system program.  *)
(***************************************************************************)
PubkeyDefault == "System"
ComputeBudgetProgram == "ComputeBudget"
FeePayerPubkey == "Payer"

Err(kind, msg) == [kind |-> kind, msg |-> msg]

MaxOf(x, y) == IF x >= y THEN x ELSE y
MinOf(x, y) == IF x <= y THEN x ELSE y

\* u64::to_le_bytes / u32::to_le_bytes, and the decoding of such bytes
RECURSIVE Pow(_, _)
Pow(x, n) == IF n = 0 THEN 1 ELSE x * Pow(x, n - 1)
RECURSIVE ToLeBytes(_, _)
ToLeBytes(v, width) ==
    IF width = 0 THEN <<>> ELSE <<v % 256>> \o ToLeBytes(v \div 256, width - 1)
RECURSIVE FromLeBytes(_)
FromLeBytes(bytes) ==
    IF bytes = <<>> THEN 0 ELSE Head(bytes) + 256 * FromLeBytes(Tail(bytes))

\* ComputeBudgetInstruction::set_compute_unit_limit / set_compute_unit_price:
\* opcode 2 followed by a u32, opcode 3 followed by a u64
SetComputeUnitLimit(units) ==
    [program_id |-> ComputeBudgetProgram, accounts |-> <<>>,
     data |-> <<2>> \o ToLeBytes(units, 4)]
SetComputeUnitPrice(price) ==
    [program_id |-> ComputeBudgetProgram, accounts |-> <<>>,
     data |-> <<3>> \o ToLeBytes(price, 8)]

(***************************************************************************)
(* FeeManager::create_compute_budget_instructions                          *)
(***************************************************************************)
CreateComputeBudgetInstructions(compute_units, fee_lamports) ==
    <<SetComputeUnitLimit(compute_units), SetComputeUnitPrice(fee_lamports)>>

(***************************************************************************)
(* TransactionBundler::convert_instructions: base64-decodes the data of    *)
(* every InstructionData; the first undecodable one is                     *)
(* Err(InvalidInput).  data_b64 is [ok, bytes]: whether the string decodes *)
(* and the bytes it decodes to.                                            *)
(***************************************************************************)
\* mutant of ConvertInstructions: an undecodable instruction is given empty
\* data
ConvertInstructions_EmptyData(instruction_data) ==
    [ok |-> TRUE, error |-> Err("none", ""),
     instructions |->
        [i \in DOMAIN instruction_data |->
            [program_id |-> instruction_data[i].program_id,
             accounts |-> instruction_data[i].keys,
             data |-> instruction_data[i].data_b64.bytes]]]

ConvertInstructions(instruction_data) ==
    IF \E i \in DOMAIN instruction_data : ~instruction_data[i].data_b64.ok
    THEN [ok |-> FALSE, error |-> Err("InvalidInput", "Invalid base64 data"),
          instructions |-> <<>>]
    ELSE [ok |-> TRUE, error |-> Err("none", ""),
          instructions |->
            [i \in DOMAIN instruction_data |->
                [program_id |-> instruction_data[i].program_id,
                 accounts |-> instruction_data[i].keys,
                 data |-> instruction_data[i].data_b64.bytes]]]

(***************************************************************************)
(* TransactionSimulator::validate_instructions: Err("none") for Ok(()).    *)
(***************************************************************************)
\* mutant of ValidateInstructions: a list is rejected only when none of its
\* programs is on the allow-list
ValidateInstructions_AllOutside(sec, instructions) ==
    IF ~sec.validate_instructions THEN Err("none", "")
    ELSE IF Len(instructions) > sec.max_bundle_size
    THEN Err("Simulation", "too many instructions")
    ELSE IF sec.program_whitelist = {} THEN Err("none", "")
    ELSE IF instructions # <<>>
            /\ \A i \in DOMAIN instructions :
                   instructions[i].program_id \notin sec.program_whitelist
    THEN Err("Simulation", "not whitelisted")
    ELSE Err("none", "")

\* mutant of ValidateInstructions: an empty allow-list is searched like any
\* other
ValidateInstructions_EmptyListsNothing(sec, instructions) ==
    IF ~sec.validate_instructions THEN Err("none", "")
    ELSE IF Len(instructions) > sec.max_bundle_size
    THEN Err("Simulation", "too many instructions")
    ELSE IF \E i \in DOMAIN instructions :
                instructions[i].program_id \notin sec.program_whitelist
    THEN Err("Simulation", "not whitelisted")
    ELSE Err("none", "")

ValidateInstructions(sec, instructions) ==
    IF ~sec.validate_instructions THEN Err("none", "")
    ELSE IF Len(instructions) > sec.max_bundle_size
    THEN Err("Simulation", "too many instructions")
    ELSE IF sec.program_whitelist = {} THEN Err("none", "")
    ELSE IF \E i \in DOMAIN instructions :
                instructions[i].program_id \notin sec.program_whitelist
    THEN Err("Simulation", "not whitelisted")
    ELSE Err("none", "")

(***************************************************************************)
(* Transaction::new_with_payer (solana_sdk, called at bundler.rs 590-596): *)
(* the account keys are the payer, the other signers, the other accounts   *)
(* and the program ids, each once; an instruction refers to its program    *)
(* and accounts by index; one default signature per required signer.       *)
(***************************************************************************)
RECURSIVE Dedup(_)
Dedup(s) ==
    IF s = <<>> THEN <<>>
    ELSE LET rest == Dedup(SubSeq(s, 1, Len(s) - 1))
             x == s[Len(s)]
         IN  IF \E i \in DOMAIN rest : rest[i] = x THEN rest ELSE Append(rest, x)

RECURSIVE Flatten(_)
Flatten(ss) == IF ss = <<>> THEN <<>> ELSE Head(ss) \o Flatten(Tail(ss))

Position(s, x) ==
    IF \E i \in DOMAIN s : s[i] = x
    THEN CHOOSE i \in DOMAIN s : s[i] = x /\ \A j \in 1..(i - 1) : s[j] # x
    ELSE 0

NoMessage == [account_keys |-> <<>>, instructions |-> <<>>, recent_blockhash |-> 0]
DefaultSignature == [signer |-> "none", over |-> NoMessage]

NewWithPayer(instructions, payer) ==
    LET metas == Flatten([i \in DOMAIN instructions |-> instructions[i].accounts])
        signers == [i \in DOMAIN SelectSeq(metas, LAMBDA m : m.is_signer) |->
                        SelectSeq(metas, LAMBDA m : m.is_signer)[i].pubkey]
        others == [i \in DOMAIN metas |-> metas[i].pubkey]
        programs == [i \in DOMAIN instructions |-> instructions[i].program_id]
        signer_keys == Dedup(<<payer>> \o signers)
        keys == Dedup(signer_keys \o others \o programs)
    IN  [message |->
            [account_keys |-> keys,
             instructions |->
                [i \in DOMAIN instructions |->
                    [program_id_index |-> Position(keys, instructions[i].program_id),
                     accounts |-> [k \in DOMAIN instructions[i].accounts |->
                        Position(keys, instructions[i].accounts[k].pubkey)],
                     data |-> instructions[i].data]],
             recent_blockhash |-> 0],
         signatures |-> [i \in DOMAIN signer_keys |-> DefaultSignature]]

\* the program id and the number of instructions a compiled transaction
\* gives back to validate_instructions (simulation.rs 92-113)
DecompiledInstructions(transaction) ==
    [i \in DOMAIN transaction.message.instructions |->
        [program_id |-> transaction.message.account_keys[
                            transaction.message.instructions[i].program_id_index],
         accounts |-> transaction.message.instructions[i].accounts,
         data |-> transaction.message.instructions[i].data]]

(***************************************************************************)
(* TransactionSimulator::simulate_transaction: re-validates the compiled   *)
(* instructions and returns a fixed successful SimulationResult; it makes  *)
(* no RPC.  Err("none") stands for Ok(result) with result.success = true.  *)
(***************************************************************************)
SimulateTransaction(sec, transaction) ==
    ValidateInstructions(sec, DecompiledInstructions(transaction))

(***************************************************************************)
(* TransactionSimulator::estimate_compute_units.  compute_units_consumed   *)
(* is <<>> for None and <<cu>> for Some(cu); the cast of cu * 1.2 to u32   *)
(* truncates.  simulate_transaction as it stands always answers            *)
(* Some(50_000); the estimate is written for any answer.                   *)
(***************************************************************************)
MockComputeUnits == 50000

\* mutant of EstimateFromSimulation: the buffered value has no floor
EstimateFromSimulation_NoFloor(compute_units_consumed, transaction) ==
    IF compute_units_consumed # <<>>
    THEN MinOf((compute_units_consumed[1] * 6) \div 5, 1400000)
    ELSE MinOf(1000 + Len(transaction.message.instructions) * 10000, 1400000)

\* simulation.rs 145-156
EstimateFromSimulation(compute_units_consumed, transaction) ==
    IF compute_units_consumed # <<>>
    THEN MinOf(MaxOf((compute_units_consumed[1] * 6) \div 5, 1000), 1400000)
    ELSE MinOf(1000 + Len(transaction.message.instructions) * 10000, 1400000)

\* simulation.rs 142-157: a simulation that fails validation is the error
EstimateComputeUnits(sec, transaction, compute_units_consumed) ==
    IF SimulateTransaction(sec, transaction).kind # "none"
    THEN [ok |-> FALSE, error |-> SimulateTransaction(sec, transaction), units |-> 0]
    ELSE [ok |-> TRUE, error |-> Err("none", ""),
          units |-> EstimateFromSimulation(compute_units_consumed, transaction)]

(***************************************************************************)
(* FeeManager::bump_fee.  1.5^attempt is a dyadic rational and the f64     *)
(* product is exact at these magnitudes; the cast to u64 truncates.        *)
(***************************************************************************)
BumpExceeded == Err("Transaction", "Maximum fee bump attempts exceeded")

BumpFee_NoCeiling(strat, original_fee, attempt) ==
    IF ~strat.enable_bump THEN [ok |-> TRUE, fee |-> original_fee]
    ELSE IF attempt > strat.max_bump_attempts
    THEN [ok |-> FALSE, fee |-> 0, error |-> BumpExceeded]
    ELSE [ok |-> TRUE, fee |-> (original_fee * Pow(3, attempt)) \div Pow(2, attempt)]

BumpFee_FailsAtLimit(strat, original_fee, attempt) ==
    IF ~strat.enable_bump THEN [ok |-> TRUE, fee |-> original_fee]
    ELSE IF attempt >= strat.max_bump_attempts
    THEN [ok |-> FALSE, fee |-> 0, error |-> BumpExceeded]
    ELSE LET bumped_fee == (original_fee * Pow(3, attempt)) \div Pow(2, attempt)
         IN  [ok |-> TRUE,
              fee |-> IF bumped_fee <= strat.max_price_lamports
                      THEN bumped_fee ELSE strat.max_price_lamports]

BumpFee(strat, original_fee, attempt) ==
    IF ~strat.enable_bump THEN [ok |-> TRUE, fee |-> original_fee]
    ELSE IF attempt > strat.max_bump_attempts
    THEN [ok |-> FALSE, fee |-> 0, error |-> BumpExceeded]
    ELSE LET bumped_fee == (original_fee * Pow(3, attempt)) \div Pow(2, attempt)
         IN  [ok |-> TRUE,
              fee |-> IF bumped_fee <= strat.max_price_lamports
                      THEN bumped_fee ELSE strat.max_price_lamports]

(***************************************************************************)
(* TransactionBundler::update_transaction_fee.  The price bytes are        *)
(* written into `instructions`, a clone of the message's instructions that *)
(* is dropped on return: the transaction itself is left as it was.  The    *)
(* compute budget program is looked up as Pubkey::default().  The slice    *)
(* data[1..9] panics when a matching instruction has 5 to 8 data bytes.    *)
(***************************************************************************)
\* the first instruction of the clone that the loop rewrites, 0 if none
PriceInstructionIndex(instructions, program_index) ==
    LET matches(i) == /\ instructions[i].program_id_index = program_index
                      /\ Len(instructions[i].data) >= 5
                      /\ instructions[i].data[1] = 3
    IN  IF \E i \in DOMAIN instructions : matches(i)
        THEN CHOOSE i \in DOMAIN instructions :
                matches(i) /\ \A j \in 1..(i - 1) : ~matches(j)
        ELSE 0

RewrittenInstructions(instructions, k, new_fee) ==
    [instructions EXCEPT ![k].data =
        <<@[1]>> \o ToLeBytes(new_fee, 8) \o SubSeq(@, 10, Len(@))]

UpdateTransactionFee(transaction, new_fee) ==
    LET instructions == transaction.message.instructions
        program_index == Position(transaction.message.account_keys, PubkeyDefault)
        k == PriceInstructionIndex(instructions, program_index)
    IN  IF program_index = 0
        THEN [status |-> "err", transaction |-> transaction,
              error |-> Err("Transaction", "Compute budget program not found")]
        ELSE IF k = 0
        THEN [status |-> "err", transaction |-> transaction,
              error |-> Err("Transaction", "Compute unit price instruction not found")]
        ELSE IF Len(instructions[k].data) < 9
        THEN [status |-> "panic", transaction |-> transaction,
              error |-> Err("none", "")]
        ELSE [status |-> "ok", transaction |-> transaction,
              error |-> Err("none", "")]

(***************************************************************************)
(* SigningManager.  A signer is [kind, pubkey]; the File and Env providers *)
(* ("local") always sign, the Kms provider fails with Err(Signing) in both *)
(* public_key and sign.  A signature is [signer, over]: who signed which   *)
(* message.                                                                *)
(***************************************************************************)
\* KeyProvider::sign then public_key, and the write into the signer's slot
SignSlot(transaction, signer) ==
    LET i == Position(transaction.message.account_keys, signer.pubkey)
        signature == [signer |-> signer.pubkey, over |-> transaction.message]
    IN  IF i > 0 /\ i <= Len(transaction.signatures)
        THEN [transaction EXCEPT !.signatures[i] = signature]
        ELSE transaction

\* SigningManager::sign_transaction
SignTransaction(sig_cfg, transaction) ==
    IF sig_cfg.fee_payer.kind = "kms"
    THEN [ok |-> FALSE, error |-> Err("Signing", "KMS signing not implemented"),
          transaction |-> transaction]
    ELSE [ok |-> TRUE, error |-> Err("none", ""),
          transaction |-> SignSlot(transaction, sig_cfg.fee_payer)]

\* SigningManager::sign_with_additional
RECURSIVE SignWithAdditional(_, _, _)
SignWithAdditional(sig_cfg, transaction, signer_aliases) ==
    IF signer_aliases = <<>>
    THEN [ok |-> TRUE, error |-> Err("none", ""), transaction |-> transaction]
    ELSE LET alias == Head(signer_aliases)
         IN  IF alias \notin DOMAIN sig_cfg.additional_signers
             THEN [ok |-> FALSE, error |-> Err("Signing", "alias not found"),
                   transaction |-> transaction]
             ELSE IF sig_cfg.additional_signers[alias].kind = "kms"
             THEN [ok |-> FALSE,
                   error |-> Err("Signing", "KMS signing not implemented"),
                   transaction |-> transaction]
             ELSE SignWithAdditional(sig_cfg,
                     SignSlot(transaction, sig_cfg.additional_signers[alias]),
                     Tail(signer_aliases))

\* SigningManager::sign_transaction_with_signers
SignTransactionWithSigners(sig_cfg, transaction, signer_aliases) ==
    LET first == SignTransaction(sig_cfg, transaction)
    IN  IF ~first.ok THEN first
        ELSE SignWithAdditional(sig_cfg, first.transaction, signer_aliases)

\* process_single_transaction, step 3 (bundler.rs 249-263): the aliases are
\* the Some(alias) of request.signers; "" stands for alias = None
\* mutant of SignStep: the listed signers are ignored
SignStep_FeePayerOnly(sig_cfg, transaction, signers) ==
    SignTransaction(sig_cfg, transaction)

SignStep(sig_cfg, transaction, signers) ==
    IF signers = <<>> THEN SignTransaction(sig_cfg, transaction)
    ELSE SignTransactionWithSigners(sig_cfg, transaction,
                                    SelectSeq(signers, LAMBDA a : a # ""))

(***************************************************************************)
(* TransactionBundler::confirmation_from_transaction_status and            *)
(* combine_confirmation_status, and the fold of bundler.rs 172-178.        *)
(***************************************************************************)
ConfirmationFromTransactionStatus(status) ==
    CASE status = "Finalized" -> "Finalized"
      [] status = "Confirmed" -> "Confirmed"
      [] status \in {"Processed", "Failed"} -> "Processed"
      [] status = "Pending" -> "Unprocessed"

CombineConfirmationStatus(a, b) ==
    IF a = "Finalized" \/ b = "Finalized" THEN "Finalized"
    ELSE IF a = "Confirmed" \/ b = "Confirmed" THEN "Confirmed"
    ELSE IF a = "Processed" \/ b = "Processed" THEN "Processed"
    ELSE "Unprocessed"

RECURSIVE FoldConfirmation(_, _)
FoldConfirmation(current, results) ==
    IF results = <<>> THEN current
    ELSE FoldConfirmation(
            CombineConfirmationStatus(current,
                ConfirmationFromTransactionStatus(Head(results).status)),
            Tail(results))

(***************************************************************************)
(* FeeManager::calculate_fee and its steps.  The percentile index is the   *)
(* truncated f64 quotient len * base_percentile / 100.0: the product is    *)
(* exact and the quotient is whole only when the division is exact, so the *)
(* integer quotient below is its value.  The trend and the buffer are      *)
(* computed in f64 as the code computes them (see the f64 arithmetic       *)
(* below); the cast of a product to u64 truncates.                         *)
(***************************************************************************)
RECURSIVE InsertAscending(_, _)
InsertAscending(sorted, x) ==
    IF sorted = <<>> THEN <<x>>
    ELSE IF Head(sorted) <= x THEN <<Head(sorted)>> \o InsertAscending(Tail(sorted), x)
    ELSE <<x>> \o sorted

RECURSIVE SortAscending(_)
SortAscending(s) ==
    IF s = <<>> THEN <<>>
    ELSE InsertAscending(SortAscending(Tail(s)), Head(s))

\* FeeManager::calculate_percentile_fee
CalculatePercentileFee(strat, fees) ==
    IF fees = <<>> THEN 1
    ELSE LET sorted_fees == SortAscending(fees)
             raw == (Len(sorted_fees) * strat.base_percentile) \div 100
             percentile_index == MinOf(MaxOf(raw - 1, 0), Len(sorted_fees) - 1)
         IN  sorted_fees[percentile_index + 1]

(***************************************************************************)
(* f64 arithmetic.  A finite f64 is [neg, m, e] and stands for the number  *)
(* (-1)^neg * m * 2^e, where m is a natural number of at most 53 bits held *)
(* as a little-endian sequence of limbs below Limb with no leading zero    *)
(* (<<>> is 0).  Every operation computes the exact result and rounds it   *)
(* to 53 bits, ties to even, as IEEE 754 does.  The exponents met here are *)
(* far from the limits of the format: there is no overflow, no subnormal   *)
(* number and no NaN.  The operations are functions, so that an argument   *)
(* is a value before the operation starts.                                 *)
(***************************************************************************)
\* a limb holds LimbBits bits
Limb == 2^15
LimbBits == CHOOSE k \in 1..30 : 2^k = Limb
Big == Seq(0..(Limb - 1))
F64 == [neg : BOOLEAN, m : Big, e : Int]

LimbAt(a, i) == IF i \in DOMAIN a THEN a[i] ELSE 0

\* a without its leading zero limbs
Trim[a \in Big] ==
    IF \A i \in DOMAIN a : a[i] = 0 THEN <<>>
    ELSE SubSeq(a, 1, CHOOSE i \in DOMAIN a :
                          a[i] # 0 /\ \A j \in (i + 1)..Len(a) : a[j] = 0)

BigOf[n \in Nat] == IF n = 0 THEN <<>> ELSE <<n % Limb>> \o BigOf[n \div Limb]

IntOf[a \in Big] == IF a = <<>> THEN 0 ELSE Head(a) + Limb * IntOf[Tail(a)]

\* limb i of a + b takes a carry when a limb below it overflows and every
\* limb between the two is full
SumAt(a, b, i) == LimbAt(a, i) + LimbAt(b, i)

CarryInto(a, b, i) ==
    IF \E j \in 1..(i - 1) :
           /\ SumAt(a, b, j) >= Limb
           /\ \A k \in (j + 1)..(i - 1) : SumAt(a, b, k) = Limb - 1
    THEN 1 ELSE 0

BigAdd[a \in Big, b \in Big] ==
    Trim[[i \in 1..(1 + (IF Len(a) < Len(b) THEN Len(b) ELSE Len(a))) |->
            (SumAt(a, b, i) + CarryInto(a, b, i)) % Limb]]

\* limb i of a - b gives a borrow when a limb below it falls short and every
\* limb between the two is level
DiffAt(a, b, i) == LimbAt(a, i) - LimbAt(b, i)

BorrowFrom(a, b, i) ==
    IF \E j \in 1..(i - 1) :
           /\ DiffAt(a, b, j) < 0
           /\ \A k \in (j + 1)..(i - 1) : DiffAt(a, b, k) = 0
    THEN 1 ELSE 0

\* a - b for a >= b
BigSub[a \in Big, b \in Big] ==
    IF a = <<>> THEN <<>>
    ELSE Trim[[i \in DOMAIN a |->
                 (DiffAt(a, b, i) - BorrowFrom(a, b, i) + Limb) % Limb]]

\* the topmost limb in which a and b of one length differ
TopDifference(a, b) ==
    CHOOSE i \in DOMAIN a : a[i] # b[i] /\ \A j \in (i + 1)..Len(a) : a[j] = b[j]

\* -1, 0 or 1 as a is below, equal to or above b
BigCmp[a \in Big, b \in Big] ==
    IF Len(a) # Len(b) THEN (IF Len(a) < Len(b) THEN -1 ELSE 1)
    ELSE IF a = b THEN 0
    ELSE IF a[TopDifference(a, b)] < b[TopDifference(a, b)] THEN -1 ELSE 1

\* a * k
BigMulSmall[a \in Big, k \in 0..Limb] ==
    IF a = <<>> \/ k = 0 THEN <<>>
    ELSE BigAdd[[i \in DOMAIN a |-> (a[i] * k) % Limb],
                <<0>> \o [i \in DOMAIN a |-> (a[i] * k) \div Limb]]

\* a * Limb^w
ShiftLimbs(a, w) == IF a = <<>> THEN <<>> ELSE [i \in 1..w |-> 0] \o a

BigMul[a \in Big, b \in Big] ==
    IF b = <<>> THEN <<>>
    ELSE BigAdd[BigMulSmall[a, Head(b)], ShiftLimbs(BigMul[a, Tail(b)], 1)]

\* a shift by s bits is one by WholeLimbs(s) limbs and OddBits(s) bits
WholeLimbs(s) == s \div LimbBits
OddBits(s) == s % LimbBits

\* a * 2^s
BigShl[a \in Big, s \in Nat] ==
    ShiftLimbs(BigMulSmall[a, 2^OddBits(s)], WholeLimbs(s))

\* a \div 2^s
BigShr[a \in Big, s \in Nat] ==
    IF WholeLimbs(s) >= Len(a) THEN <<>>
    ELSE Trim[[i \in 1..(Len(a) - WholeLimbs(s)) |->
                 (a[i + WholeLimbs(s)] \div 2^OddBits(s))
                    + (LimbAt(a, i + WholeLimbs(s) + 1) % 2^OddBits(s))
                        * 2^(LimbBits - OddBits(s))]]

\* the number of bits of a limb
BitsOf(n) == CHOOSE k \in 0..LimbBits : n < 2^k /\ (k = 0 \/ 2^(k - 1) <= n)

BitLen(a) == IF a = <<>> THEN 0 ELSE LimbBits * (Len(a) - 1) + BitsOf(a[Len(a)])

\* the quotient of the top limbs of x by the top limb of b, a limb at most
DigitGuess(x, b) ==
    IF (LimbAt(x, Len(b) + 1) * Limb + LimbAt(x, Len(b))) \div b[Len(b)] < Limb
    THEN (LimbAt(x, Len(b) + 1) * Limb + LimbAt(x, Len(b))) \div b[Len(b)]
    ELSE Limb - 1

\* the digit q with q * b <= x < (q + 1) * b, for x < Limb * b and the top
\* limb of b at least Limb / 2: the guess is q, q + 1 or q + 2
Digit[x \in Big, b \in Big] ==
    CHOOSE q \in (IF DigitGuess(x, b) < 2 THEN 0 ELSE DigitGuess(x, b) - 2)
                    ..DigitGuess(x, b) :
        /\ BigCmp[BigMulSmall[b, q], x] <= 0
        /\ BigCmp[BigMulSmall[b, q + 1], x] > 0

\* x = q * b + r for the digit q
DigitAndRest(x, b, q) == [q |-> q, r |-> BigSub[x, BigMulSmall[b, q]]]

QuoRem[x \in Big, b \in Big] == DigitAndRest(x, b, Digit[x, b])

\* the limbs i, i-1, ..., 1 of a divided by b: last holds the digit found for
\* limb i+1 and the remainder it left, q the digits found before it
BigDivFrom[a \in Big, b \in Big, i \in Nat, last \in [q : 0..(Limb - 1), r : Big],
           q \in Big] ==
    IF i = 0 THEN [q |-> Trim[<<last.q>> \o q], r |-> last.r]
    ELSE BigDivFrom[a, b, i - 1, QuoRem[Trim[<<a[i]>> \o last.r], b],
                    <<last.q>> \o q]

\* the shift that brings the top limb of b to Limb / 2 or more
NormShift(b) == (LimbBits - (BitLen(b) % LimbBits)) % LimbBits

\* quotient and remainder of a by b, the top limb of b being Limb / 2 or more:
\* the top Len(b) - 1 limbs of a are below b and give no digit
BigDivNormal[a \in Big, b \in Big] ==
    IF Len(a) < Len(b) THEN [q |-> <<>>, r |-> a]
    ELSE BigDivFrom[a, b, Len(a) - Len(b) + 1,
                    [q |-> 0, r |-> SubSeq(a, Len(a) - Len(b) + 2, Len(a))], <<>>]

\* the quotient of a by b > 0, a limb at a time, and whether it is exact
BigDiv[a \in Big, b \in Big] ==
    BigDivNormal[BigShl[a, NormShift(b)], BigShl[b, NormShift(b)]]

\* ties go to the even neighbour: c compares what is cut off with a half
RoundsUp(c, q) == c > 0 \/ (c = 0 /\ q[1] % 2 = 1)

\* m * 2^e cut to its top bits q = m \div 2^d and rounded
RoundTo[neg \in BOOLEAN, m \in Big, e \in Int, d \in Nat, q \in Big] ==
    [neg |-> neg,
     m |-> IF RoundsUp(BigCmp[BigSub[m, BigShl[q, d]], BigShl[<<1>>, d - 1]], q)
           THEN BigAdd[q, <<1>>] ELSE q,
     e |-> e + d]

\* (-1)^neg * m * 2^e rounded to 53 bits, ties to even
Round[neg \in BOOLEAN, m \in Big, e \in Int] ==
    IF m = <<>> THEN [neg |-> neg, m |-> <<>>, e |-> 0]
    ELSE IF BitLen(m) <= 53 THEN [neg |-> neg, m |-> m, e |-> e]
    ELSE RoundTo[neg, m, e, BitLen(m) - 53, BigShr[m, BitLen(m) - 53]]

\* u64 as f64, exact below 2^53
FromInt(n) == [neg |-> FALSE, m |-> BigOf[n], e |-> 0]

FNeg(x) == [x EXCEPT !.neg = ~x.neg]
FAbs(x) == [x EXCEPT !.neg = FALSE]

\* the exponent of the first power of two above |x|
Top(x) == x.e + BitLen(x.m)

\* a * 2^e and b * 2^e added with their signs
AddAligned[aneg \in BOOLEAN, a \in Big, bneg \in BOOLEAN, b \in Big, e \in Int] ==
    IF aneg = bneg THEN Round[aneg, BigAdd[a, b], e]
    ELSE IF BigCmp[a, b] >= 0 THEN Round[aneg, BigSub[a, b], e]
    ELSE Round[bneg, BigSub[b, a], e]

\* x + y; an operand 56 bits or more below the other does not move the
\* rounded sum
FAdd[x \in F64, y \in F64] ==
    IF x.m = <<>> THEN y
    ELSE IF y.m = <<>> THEN x
    ELSE IF Top(x) - Top(y) >= 56 THEN x
    ELSE IF Top(y) - Top(x) >= 56 THEN y
    ELSE IF x.e < y.e
    THEN AddAligned[x.neg, x.m, y.neg, BigShl[y.m, y.e - x.e], x.e]
    ELSE AddAligned[x.neg, BigShl[x.m, x.e - y.e], y.neg, y.m, y.e]

FSub[x \in F64, y \in F64] == FAdd[x, FNeg(y)]

FMul[x \in F64, y \in F64] == Round[x.neg # y.neg, BigMul[x.m, y.m], x.e + y.e]

\* the shift of x.m that gives the quotient by y.m 56 bits or more
DivShift(x, y) ==
    IF 56 + BitLen(y.m) > BitLen(x.m) THEN 56 + BitLen(y.m) - BitLen(x.m) ELSE 0

\* the quotient d.q with one bit more that tells whether anything was left
\* over, rounded
RoundQuotient[neg \in BOOLEAN, d \in [q : Big, r : Big], e \in Int] ==
    Round[neg, BigAdd[BigMulSmall[d.q, 2], IF d.r = <<>> THEN <<>> ELSE <<1>>], e]

\* x / y for y # 0
FDiv[x \in F64, y \in F64] ==
    RoundQuotient[x.neg # y.neg, BigDiv[BigShl[x.m, DivShift(x, y)], y.m],
                  x.e - y.e - DivShift(x, y) - 1]

IsNegative(x) == x.neg /\ x.m # <<>>

\* x < y
FLess[x \in F64, y \in F64] == IsNegative(FSub[x, y])

\* f64::min and f64::max
FMin[x \in F64, y \in F64] == IF FLess[y, x] THEN y ELSE x
FMax[x \in F64, y \in F64] == IF FLess[x, y] THEN y ELSE x

\* x as u64: truncated toward zero, 0 for a negative x
ToU64(x) ==
    IF x.neg THEN 0
    ELSE IntOf[IF x.e >= 0 THEN BigShl[x.m, x.e] ELSE BigShr[x.m, 0 - x.e]]

\* acc and the elements i, i+1, ... of values, added from the left
FSumFrom[values \in Seq(F64), i \in Nat, acc \in F64] ==
    IF i > Len(values) THEN acc
    ELSE FSumFrom[values, i + 1, FAdd[acc, values[i]]]

\* Iterator::sum of f64
FSum(values) == FSumFrom[values, 1, FromInt(0)]

\* the literals 0.0, 1.0, 0.5, 0.05 and 0.2
Zero == FromInt(0)
One == FromInt(1)
Half == [neg |-> FALSE, m |-> <<1>>, e |-> -1]
Twentieth == FDiv[FromInt(5), FromInt(100)]
Fifth == FDiv[FromInt(2), FromInt(10)]

\* f64::powi(2)
Squared[x \in F64] == FMul[x, x]

\* FeeManager::analyze_fee_trend: the fees of the latest min(10, len) samples
\* as f64, newest first (history.iter().rev().take(recent_count))
RECURSIVE Reversed(_)
Reversed(s) == IF s = <<>> THEN <<>> ELSE Append(Reversed(Tail(s)), Head(s))

TrendWindow(history) ==
    Reversed([i \in 1..MinOf(10, Len(history)) |->
                 FromInt(history[Len(history) - MinOf(10, Len(history)) + i]
                            .fee_lamports)])

\* fees.rs 210-220: ss_tot, ss_res and r_squared, clamped to [0, 1]
FitOfSquares[slope \in F64, ss_tot \in F64, ss_res \in F64] ==
    [slope |-> slope,
     r_squared |-> FMin[FMax[IF FLess[Zero, ss_tot]
                             THEN FSub[One, FDiv[ss_res, ss_tot]]
                             ELSE Zero,
                             Zero],
                        One]]

\* fees.rs 210-216: the squares about the mean and about the fitted line; the
\* intercept (sum_y - slope * sum_x) / n is computed for every point
FitOfLine[values \in Seq(F64), n \in F64, sum_x \in F64, sum_y \in F64, slope \in F64, y_mean \in F64] ==
    FitOfSquares[slope,
                 FSum([i \in DOMAIN values |-> Squared[FSub[values[i], y_mean]]]),
                 FSum([i \in DOMAIN values |->
                          Squared[FSub[values[i],
                                       FAdd[FMul[slope, FromInt(i - 1)],
                                            FDiv[FSub[sum_y, FMul[slope, sum_x]],
                                                 n]]]]])]

\* fees.rs 206-209: slope and y_mean from the sums
FitOfSums[values \in Seq(F64), n \in F64, sum_x \in F64, sum_y \in F64, sum_xy \in F64, sum_x_squared \in F64] ==
    FitOfLine[values, n, sum_x, sum_y,
              FDiv[FSub[FMul[n, sum_xy], FMul[sum_x, sum_y]],
                   FSub[FMul[n, sum_x_squared], FMul[sum_x, sum_x]]],
              FDiv[sum_y, n]]

\* FeeManager::calculate_linear_regression over x = 0.0, 1.0, ...: every sum,
\* product and quotient is an f64 operation, in the order the code performs
\* them; sum_y_squared is computed by the code and never read
CalculateLinearRegression(values) ==
    IF Len(values) < 2 THEN [slope |-> Zero, r_squared |-> Zero]
    ELSE FitOfSums[values, FromInt(Len(values)),
                   FSum([i \in DOMAIN values |-> FromInt(i - 1)]),
                   FSum(values),
                   FSum([i \in DOMAIN values |-> FMul[FromInt(i - 1), values[i]]]),
                   FSum([i \in DOMAIN values |->
                            FMul[FromInt(i - 1), FromInt(i - 1)]])]

\* fees.rs 172-187: slope > 0.05 is Rising, slope < -0.05 is Falling
TrendOf(fit) ==
    [direction |-> IF FLess[Twentieth, fit.slope] THEN "Rising"
                   ELSE IF FLess[fit.slope, FNeg(Twentieth)] THEN "Falling"
                   ELSE "Stable",
     magnitude |-> FAbs(fit.slope),
     confidence |-> fit.r_squared]

\* FeeManager::analyze_fee_trend
AnalyzeFeeTrend(history) ==
    IF Len(history) < 5
    THEN [direction |-> "Stable", magnitude |-> Zero, confidence |-> Zero]
    ELSE TrendOf(CalculateLinearRegression(TrendWindow(history)))

\* fees.rs 118-130: the factor is 1 + min(magnitude * confidence, 0.5) when
\* Rising, 1 - min(magnitude * confidence * 0.5, 0.2) when Falling, 1 when
\* Stable
AdjustmentFactor(trend) ==
    CASE trend.direction = "Rising" ->
            FAdd[One, FMin[FMul[trend.magnitude, trend.confidence], Half]]
      [] trend.direction = "Falling" ->
            FSub[One, FMin[FMul[FMul[trend.magnitude, trend.confidence], Half],
                           Fifth]]
      [] trend.direction = "Stable" -> One

\* fees.rs 132: (base_fee as f64 * adjustment_factor) as Lamports
AdjustedBy(base_fee, trend) ==
    ToU64(FMul[FromInt(base_fee), AdjustmentFactor(trend)])

\* FeeManager::apply_adaptive_adjustments
ApplyAdaptiveAdjustments(base_fee, history) ==
    AdjustedBy(base_fee, AnalyzeFeeTrend(history))

\* FeeManager::apply_buffer
ApplyBuffer(strat, fee) ==
    ToU64(FMul[FromInt(fee),
               FAdd[One, FDiv[FromInt(strat.buffer_percent), FromInt(100)]]])

\* FeeManager::new: max_history_size
MaxHistorySize == 100

\* FeeManager::record_fee_calculation, run under the history's write lock
FeeDataPoint(strat, fee, timestamp) ==
    [timestamp |-> timestamp, slot |-> 0, fee_lamports |-> fee,
     percentile |-> strat.base_percentile]

RecordFeeCalculation_EvictsNewest(strat, history, fee, timestamp) ==
    LET pushed == Append(history, FeeDataPoint(strat, fee, timestamp))
    IN  IF Len(pushed) > MaxHistorySize
        THEN SubSeq(pushed, 1, MaxHistorySize)
        ELSE pushed

RecordFeeCalculation(strat, history, fee, timestamp) ==
    LET pushed == Append(history, FeeDataPoint(strat, fee, timestamp))
    IN  IF Len(pushed) > MaxHistorySize
        THEN SubSeq(pushed, Len(pushed) - MaxHistorySize + 1, Len(pushed))
        ELSE pushed

\* FeeManager::calculate_fee from the base fee on: adjustment, buffer, ceiling
FinalFee(strat, history, base_fee) ==
    MinOf(ApplyBuffer(strat, IF strat.adaptive
                             THEN ApplyAdaptiveAdjustments(base_fee, history)
                             ELSE base_fee),
          strat.max_price_lamports)

\* fees.rs 88-95: the final fee is recorded and returned
RecordedFee(strat, history, final_fee, timestamp) ==
    [fee |-> final_fee,
     history |-> RecordFeeCalculation(strat, history, final_fee, timestamp)]

\* fees.rs 66-69: "No recent fees available, using minimum"; the strategy
\* and the history are not consulted
MinimumFee == 1
\* mutant of FeeWithoutRecentFees: the minimum is held to the ceiling
FeeWithoutRecentFees_Clamped(strat) == MinOf(MinimumFee, strat.max_price_lamports)
FeeWithoutRecentFees(strat) == MinimumFee

\* FeeManager::calculate_fee after the recent-fees RPC has answered, when no
\* other caller runs between its steps
CalculateFee(strat, history, recent_fees, timestamp) ==
    IF recent_fees = <<>> THEN [fee |-> FeeWithoutRecentFees(strat), history |-> history]
    ELSE RecordedFee(strat, history,
                     FinalFee(strat, history,
                              CalculatePercentileFee(strat, recent_fees)),
                     timestamp)

(***************************************************************************)
(* Inputs of the orchestrator.                                             *)
(***************************************************************************)
\* a request holds 0..MaxInstructions instructions
MaxInstructions == 2
\* the endpoint fails at most MaxRpcErrors of the calls of one bundle
MaxRpcErrors == 6
\* fees.max_bump_attempts is drawn from 0..MaxBumpAttempts
MaxBumpAttempts == 2
\* tasks that call FeeManager::calculate_fee concurrently
FeeCallers == 2
\* calls of calculate_fee that one task makes
MaxFeeCalls == 2

Meta(pubkey, is_signer, is_writable) ==
    [pubkey |-> pubkey, is_signer |-> is_signer, is_writable |-> is_writable]
Decodes(bytes) == [ok |-> TRUE, bytes |-> bytes]
Undecodable == [ok |-> FALSE, bytes |-> <<>>]

\* a system transfer of 1 lamport: two writable accounts, the source signs
Transfer ==
    [program_id |-> "System",
     keys |-> <<Meta("Alice", TRUE, TRUE), Meta("Bob", FALSE, TRUE)>>,
     data_b64 |-> Decodes(<<2, 0, 0, 0>> \o ToLeBytes(1, 8))]
\* an instruction of a program outside the usual allow-lists
Foreign ==
    [program_id |-> "Other", keys |-> <<Meta("Bob", FALSE, TRUE)>>,
     data_b64 |-> Decodes(<<1>>)]
\* a system instruction whose data starts with byte 3 (create-with-seed)
Seeded ==
    [program_id |-> "System", keys |-> <<Meta("Bob", FALSE, TRUE)>>,
     data_b64 |-> Decodes(<<3, 0, 0, 0, 0, 0, 0, 0, 0>>)]
\* the same, to be signed by its base account
SeededBy ==
    [program_id |-> "System", keys |-> <<Meta("Alice", TRUE, TRUE)>>,
     data_b64 |-> Decodes(<<3, 0, 0, 0, 0, 0, 0, 0, 0>>)]
\* the same with only 5 data bytes
Truncated ==
    [program_id |-> "System", keys |-> <<Meta("Bob", FALSE, TRUE)>>,
     data_b64 |-> Decodes(<<3, 0, 0, 0, 0>>)]
\* an instruction that two accounts must sign
Joint ==
    [program_id |-> "System",
     keys |-> <<Meta("Alice", TRUE, TRUE), Meta("Carol", TRUE, FALSE)>>,
     data_b64 |-> Decodes(<<1>>)]
\* an instruction whose data_b64 is not base64
Garbled ==
    [program_id |-> "System", keys |-> <<Meta("Bob", FALSE, TRUE)>>,
     data_b64 |-> Undecodable]

SeqsUpTo(S, n) == UNION {[1..k -> S] : k \in 0..n}

DefaultFeeStrategy ==
    [max_price_lamports |-> 100000, base_percentile |-> 75, buffer_percent |-> 20,
     adaptive |-> TRUE, enable_bump |-> TRUE, max_bump_attempts |-> 3]
\* the additional signers of the signing configuration, by alias
ConfiguredSigners ==
    [a \in {"alice", "carol"} |->
        [kind |-> "local", pubkey |-> IF a = "alice" THEN "Alice" ELSE "Carol"]]
LocalSigning ==
    [fee_payer |-> [kind |-> "local", pubkey |-> FeePayerPubkey],
     additional_signers |-> ConfiguredSigners]
KmsSigning ==
    [fee_payer |-> [kind |-> "kms", pubkey |-> FeePayerPubkey],
     additional_signers |-> ConfiguredSigners]
OpenSecurity ==
    [validate_instructions |-> TRUE, program_whitelist |-> {},
     max_bundle_size |-> MaxInstructions + 2, max_writable_accounts |-> 1]

FixedPrice(p) == [kind |-> "Fixed", value |-> p]
AutoPrice == [kind |-> "Auto", value |-> 0]
AutoLimit == [kind |-> "Auto", value |-> 0]

\* requests and policies that exercise conversion and validation
ValidationInputs ==
    /\ request \in
        [atomic : {TRUE}, signers : {<<>>},
         compute : [limit : {AutoLimit}, price : {FixedPrice(2)},
                    max_price_lamports : {10000}],
         instructions : SeqsUpTo({Transfer, Foreign, Garbled}, MaxInstructions)]
    /\ config \in
        [security : [validate_instructions : BOOLEAN,
                     program_whitelist : {{}, {"System"}, {"System", "ComputeBudget"}},
                     max_bundle_size : {1, MaxInstructions + 2},
                     max_writable_accounts : {1}],
         fees : {DefaultFeeStrategy},
         signing : {LocalSigning}]

\* requests and policies that exercise submission, retry and confirmation
RetryInputs ==
    /\ request \in
        [atomic : BOOLEAN, signers : {<<>>},
         compute : [limit : {AutoLimit}, price : {FixedPrice(2)},
                    max_price_lamports : {10000}],
         instructions : SeqsUpTo({Transfer, Foreign, Seeded, Truncated},
                                 MaxInstructions) \ {<<>>}]
    /\ config \in
        [security : {OpenSecurity},
         fees : {[DefaultFeeStrategy EXCEPT !.enable_bump = FALSE]}
                \cup {[DefaultFeeStrategy EXCEPT !.max_bump_attempts = m] :
                        m \in 0..MaxBumpAttempts},
         signing : {LocalSigning}]

\* the aliases of request.signers: none, configured ones in either order, an
\* unknown one alone and after a configured one, and an entry without alias
RequestedSigners ==
    {<<>>, <<"alice">>, <<"ghost">>, <<"">>, <<"alice", "carol">>,
     <<"carol", "alice">>, <<"alice", "ghost">>}

\* requests and policies that exercise the fee payer, the price and signing
SigningInputs ==
    /\ request \in
        [atomic : {TRUE}, signers : RequestedSigners,
         compute : [limit : {AutoLimit}, price : {FixedPrice(2), AutoPrice},
                    max_price_lamports : {10000, 1}],
         instructions : {<<Transfer>>, <<Joint>>}]
    /\ config \in
        [security : {OpenSecurity},
         fees : {DefaultFeeStrategy},
         signing : {LocalSigning, KmsSigning}]

\* requests whose transaction is bumped and sent again, signed by the fee
\* payer alone or by an additional signer too
ResignInputs ==
    /\ request \in
        [atomic : {TRUE}, signers : {<<>>, <<"alice">>},
         compute : [limit : {AutoLimit}, price : {FixedPrice(2)},
                    max_price_lamports : {10000}],
         instructions : {<<SeededBy>>}]
    /\ config \in
        [security : {OpenSecurity},
         fees : {DefaultFeeStrategy},
         signing : {LocalSigning}]

\* answers of getRecentPrioritizationFees: an error or a list of fees
RecentFeeReplies == {<<>>, <<5, 3>>}

NoTransaction == [message |-> NoMessage, signatures |-> <<>>]
InitialLocals ==
    [pc |-> "start", fee_lamports |-> 0, transactions |-> <<>>, i |-> 0,
     transaction |-> NoTransaction, current_transaction |-> NoTransaction,
     attempt |-> 0, delay |-> 0, polled |-> FALSE, blockhash_string |-> 0,
     signature |-> DefaultSignature,
     results |-> <<>>, overall_status |-> "Success", bundle_signature |-> <<>>,
     bundle_blockhash |-> <<>>, retry_attempts |-> 0]
NoOutcome == [kind |-> "none", error |-> Err("none", ""), response |-> <<>>]
NoHistory == [rpcs |-> {}, simulated |-> {}, signed |-> {}, sent |-> <<>>,
              fetched |-> 0, rpc_errors |-> 0, timeouts |-> {}, polls |-> <<>>,
              details |-> <<>>]

(***************************************************************************)
(* TransactionBundler::process_bundle.  The handler is cut at its awaits   *)
(* on the pool: an action runs from the return of one RPC to the issue of  *)
(* the next.  Task 0 of the pool carries the bundle's RPCs.                *)
(***************************************************************************)
poolRest == <<endpoints, max_retries, backoff_base_ms, backoff_max_ms,
                   health_status, sweeps, streak,
              lastOutcome, solo>>

Returned == calls[0].pc \in {"ok", "err"}
RpcError == Err("Rpc", "All RPC attempts failed")

\* the per-transaction locals go out of scope
ResetTx(f) ==
    [f EXCEPT !.transaction = NoTransaction, !.current_transaction = NoTransaction,
              !.attempt = 0, !.delay = 0, !.polled = FALSE,
              !.blockhash_string = 0,
              !.signature = DefaultSignature]

PushErr_NoBreak(f, e) ==
    LET failed_result ==
            [signature |-> <<>>, status |-> "Failed",
             compute_units_consumed |-> <<>>, fee_paid_lamports |-> <<>>,
             logs |-> <<>>, error |-> <<e>>]
    IN  [ResetTx(f) EXCEPT !.results = Append(@, failed_result),
                           !.overall_status = "Failed",
                           !.pc = "loop"]

\* bundler.rs 117-139: process_single_transaction returned Err(e)
PushErr(f, e) ==
    LET failed_result ==
            [signature |-> <<>>, status |-> "Failed",
             compute_units_consumed |-> <<>>, fee_paid_lamports |-> <<>>,
             logs |-> <<>>, error |-> <<e>>]
    IN  [ResetTx(f) EXCEPT !.results = Append(@, failed_result),
                           !.overall_status = "Failed",
                           !.pc = IF request.atomic THEN "break" ELSE "loop"]

\* bundler.rs 104-116: process_single_transaction returned Ok; the result
\* always carries Some(signature), and slot is always None
PushOk(f, result) ==
    [ResetTx(f) EXCEPT !.results = Append(@, result),
                       !.bundle_signature = result.signature,
                       !.bundle_blockhash = <<f.blockhash_string>>,
                       !.pc = "loop"]

\* bundler.rs 286-297
OkResult_ErrorOnFailed(f, status, details) ==
    [signature |-> <<f.signature>>, status |-> status,
     error |-> IF status = "Failed" THEN <<Err("Transaction", "confirmation timed out")>>
               ELSE <<>>,
     compute_units_consumed |-> details.compute_units,
     fee_paid_lamports |-> details.fee_paid, logs |-> details.logs]

OkResult(f, status, details) ==
    [signature |-> <<f.signature>>, status |-> status, error |-> <<>>,
     compute_units_consumed |-> details.compute_units,
     fee_paid_lamports |-> details.fee_paid, logs |-> details.logs]
NoDetails == [compute_units |-> <<>>, fee_paid |-> <<>>, logs |-> <<>>]

\* process_bundle returns Err(e), or panics
Fail(e) ==
    /\ outcome' = [kind |-> "error", error |-> e, response |-> <<>>]
    /\ frame' = [frame EXCEPT !.pc = "done"]
Panic ==
    /\ outcome' = [kind |-> "panic", error |-> Err("none", ""), response |-> <<>>]
    /\ frame' = [frame EXCEPT !.pc = "done"]

Start(op) == calls' = [calls EXCEPT ![0] = StartedCall(op)]
Rest == calls' = [calls EXCEPT ![0] = IdleCall]
Issued(h, op) == [h EXCEPT !.rpcs = @ \cup {op}]
\* the call of task 0 has returned: an Err(Rpc) is counted
Heard(h) == IF calls[0].pc = "err" THEN [h EXCEPT !.rpc_errors = @ + 1] ELSE h

\* bundler.rs 57-72 with create_transactions 557-568: conversion, validation,
\* the fee payer's key, and the price (fixed, or the recent-fees RPC issued)
EnterBundle ==
    /\ frame.pc = "start"
    /\ LET conv == ConvertInstructions(request.instructions)
           verdict == ValidateInstructions(config.security, conv.instructions)
       IN  IF ~conv.ok THEN Fail(conv.error) /\ UNCHANGED hist
           ELSE IF verdict.kind # "none" THEN Fail(verdict) /\ UNCHANGED hist
           ELSE IF config.signing.fee_payer.kind = "kms"
           THEN Fail(Err("Signing", "KMS public key retrieval not implemented"))
                /\ UNCHANGED hist
           ELSE IF request.compute.price.kind = "Fixed"
           THEN /\ frame' = [frame EXCEPT !.pc = "build",
                                 !.fee_lamports = request.compute.price.value]
                /\ UNCHANGED <<outcome, hist>>
           ELSE IF GetBestEndpoint(endpoints, health_status) = 0
           THEN Fail(Err("Rpc", "No RPC endpoints configured")) /\ UNCHANGED hist
           ELSE /\ frame' = [frame EXCEPT !.pc = "fees"]
                /\ hist' = Issued(hist, "getRecentPrioritizationFees")
                /\ UNCHANGED outcome
    /\ UNCHANGED <<config, request, fee_history, calls, poolRest, feeVars>>

\* rpc.rs 211-259 and fees.rs 60-72: the recent-fees request is sent to the
\* best endpoint outside execute_with_failover; no outcome is recorded.  An
\* empty list returns 1 at once, any other list yields the base fee.
FeesReply ==
    /\ frame.pc = "fees"
    /\ \/ Fail(Err("Rpc", "HTTP request failed"))
       \/ \E recent_fees \in RecentFeeReplies :
            /\ frame' = IF recent_fees = <<>>
                        THEN [frame EXCEPT !.pc = "build",
                                !.fee_lamports = FeeWithoutRecentFees(config.fees)]
                        ELSE [frame EXCEPT !.pc = "adjust",
                                !.fee_lamports =
                                    CalculatePercentileFee(config.fees, recent_fees)]
            /\ UNCHANGED outcome
    /\ UNCHANGED <<config, request, fee_history, hist, calls, poolRest, feeVars>>

\* fees.rs 74-85: the trend is read from the history under its read lock,
\* then buffer and ceiling
FeesAdjust ==
    /\ frame.pc = "adjust"
    /\ frame' = [frame EXCEPT !.pc = "record",
                    !.fee_lamports = FinalFee(config.fees, fee_history,
                                              frame.fee_lamports)]
    /\ UNCHANGED <<config, request, fee_history, outcome, hist, calls, poolRest,
                   feeVars>>

\* fees.rs 88-95 and 224-240: the sample is appended under the write lock and
\* the fee returned
FeesRecord ==
    /\ frame.pc = "record"
    /\ fee_history' = RecordFeeCalculation(config.fees, fee_history,
                                           frame.fee_lamports, now)
    /\ now' = now + 1
    /\ frame' = [frame EXCEPT !.pc = "build"]
    /\ UNCHANGED <<config, request, outcome, hist, calls, poolRest, fee_calls,
                   direct_call>>

\* bundler.rs 570-598: one transaction holds every instruction
ComputeUnitsFor(limit) == IF limit.kind = "Auto" THEN 200000 ELSE limit.value

BuildTransactions ==
    /\ frame.pc = "build"
    /\ LET instructions == ConvertInstructions(request.instructions).instructions
           all_instructions ==
                CreateComputeBudgetInstructions(
                    ComputeUnitsFor(request.compute.limit), frame.fee_lamports)
                \o instructions
       IN  frame' = [frame EXCEPT
                        !.transactions = <<NewWithPayer(all_instructions, FeePayerPubkey)>>,
                        !.pc = "loop"]
    /\ UNCHANGED <<config, request, fee_history, outcome, hist, calls, poolRest, feeVars>>

\* bundler.rs 87-101 and 228-245: the next transaction is taken, simulated,
\* and the blockhash RPC is issued
StartTransaction ==
    /\ frame.pc = "loop"
    /\ frame.i < Len(frame.transactions)
    /\ LET transaction == frame.transactions[frame.i + 1]
           sim == SimulateTransaction(config.security, transaction)
           f1 == [frame EXCEPT !.i = @ + 1, !.transaction = transaction]
           h1 == [hist EXCEPT !.simulated = @ \cup {frame.i + 1}]
       IN  IF sim.kind # "none"
           THEN /\ frame' = PushErr(f1, sim)
                /\ hist' = h1
                /\ UNCHANGED calls
           ELSE /\ frame' = [f1 EXCEPT !.pc = "blockhash"]
                /\ hist' = Issued(h1, "get_latest_blockhash")
                /\ Start("get_latest_blockhash")
    /\ UNCHANGED <<config, request, fee_history, outcome, poolRest, feeVars>>

Sent(h, index, transaction) ==
    [Issued(h, "send_transaction") EXCEPT
        !.sent = Append(@, [index |-> index, transaction |-> transaction])]

\* bundler.rs 245-269 and 308-313: blockhash written, transaction signed,
\* cloned into current_transaction, first send issued
AfterBlockhash ==
    /\ frame.pc = "blockhash"
    /\ Returned
    /\ IF calls[0].pc = "err"
       THEN /\ frame' = PushErr(frame, RpcError)
            /\ Rest
            /\ hist' = Heard(hist)
       ELSE LET blockhash == hist.fetched + 1
                h1 == [Heard(hist) EXCEPT !.fetched = blockhash,
                                   !.signed = @ \cup {frame.i}]
                stamped == [frame.transaction EXCEPT
                                !.message.recent_blockhash = blockhash]
                signing == SignStep(config.signing, stamped, request.signers)
            IN  IF ~signing.ok
                THEN /\ frame' = PushErr(frame, signing.error)
                     /\ Rest
                     /\ hist' = h1
                ELSE /\ frame' = [frame EXCEPT
                                    !.transaction = signing.transaction,
                                    !.current_transaction = signing.transaction,
                                    !.blockhash_string = blockhash,
                                    !.attempt = 0, !.pc = "send"]
                     /\ Start("send_transaction")
                     /\ hist' = Sent(h1, frame.i, signing.transaction)
    /\ UNCHANGED <<config, request, fee_history, outcome, poolRest, feeVars>>

\* submit_transaction_with_retry sends at most this many times
MaxAttempts == 3
\* the price every bump starts from (bundler.rs 326)
BumpBase == 5000

\* bundler.rs 342: the delay slept before the next send, in milliseconds
RetryDelay(attempt) == 100 * 2^(attempt - 1)

\* bundler.rs 313-349: the send returned; a failed send that is neither the
\* last nor bumped goes to the sleep of line 343
AfterSend ==
    /\ frame.pc = "send"
    /\ Returned
    /\ IF calls[0].pc = "ok"
       THEN /\ frame' = [frame EXCEPT
                            !.signature = frame.current_transaction.signatures[1],
                            !.polled = FALSE, !.pc = "confirm"]
            /\ Rest
            /\ hist' = Heard(hist) /\ UNCHANGED outcome
       ELSE LET attempt == frame.attempt + 1
                f1 == [frame EXCEPT !.attempt = attempt, !.retry_attempts = @ + 1]
                bump == BumpFee(config.fees, BumpBase, attempt)
                upd == UpdateTransactionFee(frame.current_transaction, bump.fee)
            IN  IF attempt >= MaxAttempts
                THEN /\ frame' = PushErr(f1, Err("Transaction",
                                    "Transaction submission failed after 3 attempts"))
                     /\ Rest
                     /\ hist' = Heard(hist) /\ UNCHANGED outcome
                ELSE IF ~bump.ok
                THEN /\ frame' = [f1 EXCEPT !.delay = RetryDelay(attempt),
                                            !.pc = "backoff"]
                     /\ Rest
                     /\ hist' = Heard(hist)
                     /\ UNCHANGED outcome
                ELSE IF upd.status = "panic"
                THEN Panic /\ Rest /\ hist' = Heard(hist)
                ELSE IF upd.status = "err"
                THEN /\ frame' = PushErr(f1, upd.error)
                     /\ Rest
                     /\ hist' = Heard(hist) /\ UNCHANGED outcome
                ELSE /\ frame' = [f1 EXCEPT !.current_transaction = upd.transaction,
                                            !.pc = "rehash"]
                     /\ Start("get_latest_blockhash")
                     /\ hist' = Issued(Heard(hist), "get_latest_blockhash")
                     /\ UNCHANGED outcome
    /\ UNCHANGED <<config, request, fee_history, poolRest, feeVars>>

\* bundler.rs 331-343: fresh blockhash, re-signed by the fee payer, then the
\* sleep before the next send
AfterRehash ==
    /\ frame.pc = "rehash"
    /\ Returned
    /\ IF calls[0].pc = "err"
       THEN /\ frame' = PushErr(frame, RpcError)
            /\ Rest
            /\ hist' = Heard(hist)
       ELSE LET new_blockhash == hist.fetched + 1
                h1 == [Heard(hist) EXCEPT !.fetched = new_blockhash]
                stamped == [frame.current_transaction EXCEPT
                                !.message.recent_blockhash = new_blockhash]
                signing == SignTransaction(config.signing, stamped)
            IN  IF ~signing.ok
                THEN /\ frame' = PushErr(frame, signing.error)
                     /\ Rest
                     /\ hist' = h1
                ELSE /\ frame' = [frame EXCEPT
                                    !.current_transaction = signing.transaction,
                                    !.delay = RetryDelay(frame.attempt),
                                    !.pc = "backoff"]
                     /\ Rest
                     /\ hist' = h1
    /\ UNCHANGED <<config, request, fee_history, outcome, poolRest, feeVars>>

\* bundler.rs 343 and 312-313: the sleep is over, the loop test passes and
\* current_transaction is sent again
AfterBackoff ==
    /\ frame.pc = "backoff"
    /\ frame' = [frame EXCEPT !.delay = 0, !.pc = "send"]
    /\ Start("send_transaction")
    /\ hist' = Sent(hist, frame.i, frame.current_transaction)
    /\ UNCHANGED <<config, request, fee_history, outcome, poolRest, feeVars>>

\* what the polls of one iteration of the loop answered: "none" before the
\* poll was made, "yes" or "no" for Ok(true) or Ok(false), "err" for Err(_)
NoAnswers == [confirmed |-> "none", finalized |-> "none", found |-> "none"]
AnswerOf(call, answer) ==
    IF call.pc = "err" THEN "err" ELSE IF answer THEN "yes" ELSE "no"
\* the answers of the latest iteration for transaction k are kept
Polled(h, k, answers) ==
    [h EXCEPT !.polls = [j \in DOMAIN h.polls \cup {k} |->
                            IF j = k THEN answers ELSE h.polls[j]]]

\* bundler.rs 419-424, 427-432 and 441: `if let Ok(true)` and `if let
\* Ok(Some(_))`; an Err(_) is passed over like a negative answer
Positive_ErrorCounts(call, answer) == call.pc = "err" \/ answer
Positive(call, answer) == call.pc = "ok" /\ answer

\* bundler.rs 414-417 and 448: the head of the polling loop, which runs while
\* less than 60 s have passed on the clock read at line 415.  The first test
\* passes; every later one passes or fails as the clock decides, so a bundle
\* polls any number of rounds before it gives up.  frame.polled tells that a
\* round has been run.
WaitForConfirmation ==
    /\ frame.pc = "confirm"
    /\ \/ /\ frame.polled
          /\ frame' = PushOk(frame, OkResult(frame, "Failed", NoDetails))
          /\ hist' = [hist EXCEPT !.timeouts = @ \cup {frame.i}]
          /\ UNCHANGED calls
       \/ /\ frame' = [frame EXCEPT !.polled = TRUE, !.pc = "confirmed"]
          /\ Start("confirm_transaction")
          /\ hist' = Polled(Issued(hist, "confirm_transaction"), frame.i, NoAnswers)
    /\ UNCHANGED <<config, request, fee_history, outcome, poolRest, feeVars>>

\* bundler.rs 419-440: confirm_transaction(Confirmed) returned
AfterPollConfirmed ==
    /\ frame.pc = "confirmed"
    /\ Returned
    /\ \E confirmed \in BOOLEAN :
         /\ IF Positive(calls[0], confirmed)
            THEN /\ frame' = [frame EXCEPT !.pc = "finalized"]
                 /\ Start("confirm_transaction")
            ELSE /\ frame' = [frame EXCEPT !.pc = "processed"]
                 /\ Start("get_transaction")
         /\ hist' = Polled(IF Positive(calls[0], confirmed) THEN Heard(hist)
                           ELSE Issued(Heard(hist), "get_transaction"),
                           frame.i,
                           [NoAnswers EXCEPT
                                !.confirmed = AnswerOf(calls[0], confirmed)])
    /\ UNCHANGED <<config, request, fee_history, outcome, poolRest, feeVars>>

\* bundler.rs 426-435 and 278-279: confirm_transaction(Finalized) returned
AfterPollFinalized ==
    /\ frame.pc = "finalized"
    /\ Returned
    /\ \E finalized \in BOOLEAN :
         /\ IF Positive(calls[0], finalized)
            THEN /\ frame' = [frame EXCEPT !.pc = "details"]
                 /\ Start("get_transaction")
            ELSE /\ frame' = PushOk(frame, OkResult(frame, "Confirmed", NoDetails))
                 /\ Rest
         /\ hist' = Polled(IF Positive(calls[0], finalized)
                           THEN Issued(Heard(hist), "get_transaction")
                           ELSE Heard(hist),
                           frame.i,
                           [hist.polls[frame.i] EXCEPT
                                !.finalized = AnswerOf(calls[0], finalized)])
    /\ UNCHANGED <<config, request, fee_history, outcome, poolRest, feeVars>>

\* bundler.rs 440-445: get_transaction returned inside the polling loop
AfterPollGetTransaction ==
    /\ frame.pc = "processed"
    /\ Returned
    /\ \E found \in BOOLEAN :
         /\ IF Positive(calls[0], found)
            THEN frame' = PushOk(frame, OkResult(frame, "Processed", NoDetails))
            ELSE frame' = [frame EXCEPT !.pc = "confirm"]
         /\ hist' = Polled(Heard(hist), frame.i,
                           [hist.polls[frame.i] EXCEPT
                                !.found = AnswerOf(calls[0], found)])
    /\ Rest
    /\ UNCHANGED <<config, request, fee_history, outcome, poolRest, feeVars>>

\* answers of get_transaction: None, or Some(tx) with tx.meta None or Some
\* [compute_units_consumed, fee, log_messages]
TransactionReplies ==
    {<<>>,
     <<[meta |-> <<>>]>>,
     <<[meta |-> <<[compute_units_consumed |-> <<150>>, fee |-> 5000,
                    log_messages |-> <<<<"log">>>>]>>]>>,
     <<[meta |-> <<[compute_units_consumed |-> <<>>, fee |-> 5000,
                    log_messages |-> <<>>]>>]>>}

\* TransactionBundler::get_transaction_details on Ok(reply)
GetTransactionDetails(reply) ==
    IF reply = <<>> \/ reply[1].meta = <<>> THEN NoDetails
    ELSE LET meta == reply[1].meta[1]
         IN  [compute_units |-> meta.compute_units_consumed,
              fee_paid |-> <<meta.fee>>,
              logs |-> IF meta.log_messages = <<>> THEN <<>>
                       ELSE meta.log_messages[1]]

\* history: what get_transaction answered when the details of transaction k
\* were asked for
Detailed(h, k, answer) ==
    [h EXCEPT !.details = [j \in DOMAIN h.details \cup {k} |->
                              IF j = k THEN answer ELSE h.details[j]]]

\* bundler.rs 278-297: the details of a finalized transaction
AfterDetails ==
    /\ frame.pc = "details"
    /\ Returned
    /\ \E reply \in TransactionReplies :
         LET details == IF calls[0].pc = "ok" THEN GetTransactionDetails(reply)
                        ELSE NoDetails
         IN  /\ frame' = PushOk(frame, OkResult(frame, "Finalized", details))
             /\ hist' = Detailed(Heard(hist), frame.i,
                                 [ok |-> calls[0].pc = "ok", reply |-> reply])
    /\ Rest
    /\ UNCHANGED <<config, request, fee_history, outcome, poolRest, feeVars>>

RECURSIVE SumOption(_, _)
SumOption(results, field) ==
    IF results = <<>> THEN 0
    ELSE (IF Head(results)[field] = <<>> THEN 0 ELSE Head(results)[field][1])
         + SumOption(Tail(results), field)

\* bundler.rs 143-207: the response built from the loop's variables
BundleResponse_NoFixUp(f) ==
    [status |-> f.overall_status,
     transactions |-> f.results,
     bundle_signature |-> f.bundle_signature,
     slot |-> <<>>,
     blockhash |-> f.bundle_blockhash,
     confirmation |-> FoldConfirmation("Unprocessed", f.results),
     metrics |->
        [total_transactions |-> Len(f.results),
         successful_transactions |->
            Len(SelectSeq(f.results, LAMBDA r : r.status # "Failed")),
         failed_transactions |->
            Len(SelectSeq(f.results, LAMBDA r : r.status = "Failed")),
         total_compute_units |-> SumOption(f.results, "compute_units_consumed"),
         total_fee_paid |-> SumOption(f.results, "fee_paid_lamports"),
         retry_attempts |-> f.retry_attempts]]

BundleResponse(f) ==
    [status |-> IF f.overall_status = "Success"
                   /\ \E k \in DOMAIN f.results : f.results[k].status = "Failed"
                THEN "Failed" ELSE f.overall_status,
     transactions |-> f.results,
     bundle_signature |-> f.bundle_signature,
     slot |-> <<>>,
     blockhash |-> f.bundle_blockhash,
     confirmation |-> FoldConfirmation("Unprocessed", f.results),
     metrics |->
        [total_transactions |-> Len(f.results),
         successful_transactions |->
            Len(SelectSeq(f.results, LAMBDA r : r.status # "Failed")),
         failed_transactions |->
            Len(SelectSeq(f.results, LAMBDA r : r.status = "Failed")),
         total_compute_units |-> SumOption(f.results, "compute_units_consumed"),
         total_fee_paid |-> SumOption(f.results, "fee_paid_lamports"),
         retry_attempts |-> f.retry_attempts]]

\* bundler.rs 141-213: the loop is left and Ok(response) returned
ReturnResponse ==
    /\ \/ frame.pc = "break"
       \/ frame.pc = "loop" /\ frame.i >= Len(frame.transactions)
    /\ outcome' = [kind |-> "response", error |-> Err("none", ""),
                   response |-> <<BundleResponse(frame)>>]
    /\ frame' = [frame EXCEPT !.pc = "done"]
    /\ UNCHANGED <<config, request, fee_history, hist, calls, poolRest, feeVars>>

(***************************************************************************)
(* FeeManager on its own: tasks that call calculate_fee concurrently on    *)
(* one manager.  calculate_fee is cut where it takes the history's lock:   *)
(* analyze_fee_trend reads the history under the read lock, and            *)
(* record_fee_calculation appends under the write lock; another task may   *)
(* run between the two.                                                    *)
(***************************************************************************)
FeeTasks == 1..FeeCallers

IdleFeeCall ==
    [pc |-> "idle", calls |-> 0, recent_fees |-> <<>>, base_fee |-> 0,
     final_fee |-> 0, result |-> <<>>]
NoDirectCall ==
    [op |-> "none", fees |-> <<>>, original_fee |-> 0, attempt |-> 0, result |-> <<>>]

\* answers of getRecentPrioritizationFees to a fee task
FeeReplies == {<<>>, <<0, 0>>, <<5, 3>>}

\* fees.rs 60-72: the RPC answers; an empty list returns 1 at once, any other
\* list yields the base fee
FeeCall(t) ==
    /\ fee_calls[t].pc \in {"idle", "done"}
    /\ fee_calls[t].calls < MaxFeeCalls
    /\ direct_call.op = "none"
    /\ \/ fee_calls' = [fee_calls EXCEPT ![t] =
            [IdleFeeCall EXCEPT !.pc = "done", !.calls = fee_calls[t].calls + 1,
                                !.result = <<[ok |-> FALSE, fee |-> 0]>>]]
       \/ \E recent_fees \in FeeReplies :
            fee_calls' = [fee_calls EXCEPT ![t] =
                IF recent_fees = <<>>
                THEN [IdleFeeCall EXCEPT !.pc = "done",
                                         !.calls = fee_calls[t].calls + 1,
                                         !.result = <<[ok |-> TRUE,
                                                       fee |-> FeeWithoutRecentFees(config.fees)]>>]
                ELSE [IdleFeeCall EXCEPT
                        !.pc = "adjust", !.calls = fee_calls[t].calls + 1,
                        !.recent_fees = recent_fees,
                        !.base_fee = CalculatePercentileFee(config.fees, recent_fees)]]
    /\ UNCHANGED <<poolVars, bundleVars, now, direct_call>>

\* fees.rs 74-85: the trend is read from the history, then buffer and ceiling
FeeAdjust(t) ==
    /\ fee_calls[t].pc = "adjust"
    /\ fee_calls' = [fee_calls EXCEPT ![t].pc = "record",
            ![t].final_fee = FinalFee(config.fees, fee_history, fee_calls[t].base_fee)]
    /\ UNCHANGED <<poolVars, bundleVars, now, direct_call>>

\* fees.rs 88-95 and 224-240: the sample is appended and the fee returned
FeeRecord(t) ==
    /\ fee_calls[t].pc = "record"
    /\ fee_history' = RecordFeeCalculation(config.fees, fee_history,
                                           fee_calls[t].final_fee, now)
    /\ now' = now + 1
    /\ fee_calls' = [fee_calls EXCEPT ![t].pc = "done",
            ![t].result = <<[ok |-> TRUE, fee |-> fee_calls[t].final_fee]>>]
    /\ UNCHANGED <<poolVars, config, request, frame, outcome, hist, direct_call>>

\* FeeManager::clear_history (fees.rs 324-327): the history is emptied under
\* its write lock, whatever the calls in flight
ClearHistory ==
    /\ fee_history' = <<>>
    /\ UNCHANGED <<poolVars, config, request, frame, outcome, hist, feeVars>>

\* bump_fee and calculate_percentile_fee read the strategy only and touch no
\* shared state: a direct call of either is taken from the initial state
NoFeeCallYet == \A t \in FeeTasks : fee_calls[t].calls = 0

BumpInputs == {0, 1, 3, 1000, 5000, 100000, 150000}
PercentileInputs ==
    {<<7>>, <<0, 0>>, <<5, 3>>, <<2, 1, 4, 3>>, <<100, 200, 300, 400, 500>>,
     <<500, 100, 400, 200, 300>>}

BumpFeeCall ==
    /\ direct_call.op = "none"
    /\ NoFeeCallYet
    /\ \E original_fee \in BumpInputs, attempt \in 0..(MaxBumpAttempts + 2) :
         direct_call' = [NoDirectCall EXCEPT
            !.op = "bump_fee", !.original_fee = original_fee, !.attempt = attempt,
            !.result = <<BumpFee(config.fees, original_fee, attempt)>>]
    /\ UNCHANGED <<poolVars, bundleVars, now, fee_calls>>

PercentileCall ==
    /\ direct_call.op = "none"
    /\ NoFeeCallYet
    /\ \E fees \in PercentileInputs :
         direct_call' = [NoDirectCall EXCEPT
            !.op = "calculate_percentile_fee", !.fees = fees,
            !.result = <<[ok |-> TRUE,
                          fee |-> CalculatePercentileFee(config.fees, fees)]>>]
    /\ UNCHANGED <<poolVars, bundleVars, now, fee_calls>>

\* the history a manager holds after earlier calls answered by `replies`, one
\* call after the other: the calls of the first half, then those of the second
RECURSIVE HistoryFrom(_, _, _)
HistoryFrom(strat, history, replies) ==
    IF replies = <<>> \/ Len(history) > MaxHistorySize THEN history
    ELSE IF Len(replies) = 1
    THEN CalculateFee(strat, history, Head(replies), Len(history)).history
    ELSE HistoryFrom(strat,
                     HistoryFrom(strat, history,
                                 SubSeq(replies, 1, Len(replies) \div 2)),
                     SubSeq(replies, Len(replies) \div 2 + 1, Len(replies)))

HistoryAfter(strat, replies) == HistoryFrom(strat, <<>>, replies)

\* strategies: the default and its one-field variations
FeeStrategies ==
    {DefaultFeeStrategy,
     [DefaultFeeStrategy EXCEPT !.adaptive = FALSE],
     [DefaultFeeStrategy EXCEPT !.enable_bump = FALSE],
     [DefaultFeeStrategy EXCEPT !.buffer_percent = 0]}
    \cup {[DefaultFeeStrategy EXCEPT !.max_price_lamports = m] : m \in {0, 4}}
    \cup {[DefaultFeeStrategy EXCEPT !.base_percentile = p] : p \in {0, 50, 100}}
    \cup {[DefaultFeeStrategy EXCEPT !.max_bump_attempts = m] : m \in 0..MaxBumpAttempts}

\* earlier calls: fees that rose, fees that fell, and a history one sample
\* short of full
EarlierReplies ==
    {<<<<1>>, <<2>>, <<3>>, <<4>>, <<5>>>>,
     <<<<5>>, <<4>>, <<3>>, <<2>>, <<1>>>>,
     [i \in 1..(MaxHistorySize - 1) |-> <<3>>]}

\* a manager is fresh under any strategy, or has answered earlier calls under
\* the default strategy, without the buffer, or under a low ceiling
FeeInputs ==
    (FeeStrategies \X {<<>>})
    \cup ({DefaultFeeStrategy,
           [DefaultFeeStrategy EXCEPT !.buffer_percent = 0],
           [DefaultFeeStrategy EXCEPT !.max_price_lamports = 4]} \X EarlierReplies)

FeeInit ==
    /\ endpoints = <<[url |-> 1, weight |-> 1]>>
    /\ max_retries = 0
    /\ backoff_base_ms = 1000
    /\ backoff_max_ms = 30000
    /\ health_status = NewHealthStatus(endpoints)
    /\ calls = [t \in Tasks |-> IdleCall]
    /\ sweeps = NoSweeps(endpoints)
    /\ streak = [u \in UrlsOf(endpoints) |-> 0]
    /\ lastOutcome = [u \in UrlsOf(endpoints) |-> "none"]
    /\ solo = TRUE
    /\ request = [atomic |-> TRUE, signers |-> <<>>,
                  compute |-> [limit |-> AutoLimit, price |-> AutoPrice,
                               max_price_lamports |-> 10000],
                  instructions |-> <<>>]
    /\ \E input \in FeeInputs :
         /\ config = [security |-> OpenSecurity, fees |-> input[1],
                      signing |-> LocalSigning]
         /\ fee_history = HistoryAfter(input[1], input[2])
         /\ now = Len(input[2])
    /\ frame = InitialLocals
    /\ outcome = NoOutcome
    /\ hist = NoHistory
    /\ fee_calls = [t \in FeeTasks |-> IdleFeeCall]
    /\ direct_call = NoDirectCall

FeeNext ==
    \/ \E t \in FeeTasks : FeeCall(t)
    \/ \E t \in FeeTasks : FeeAdjust(t)
    \/ \E t \in FeeTasks : FeeRecord(t)
    \/ ClearHistory
    \/ BumpFeeCall
    \/ PercentileCall

FeeSpec == FeeInit /\ [][FeeNext]_vars

(***************************************************************************)
(* One bundle on a bundler with one endpoint and max_retries = 0, so that  *)
(* each RPC of the bundle is one attempt that succeeds or fails.           *)
(***************************************************************************)
OneEndpoint ==
    /\ endpoints = <<[url |-> 1, weight |-> 1]>>
    /\ max_retries = 0
    /\ backoff_base_ms = 1000
    /\ backoff_max_ms = 30000
    /\ health_status = NewHealthStatus(endpoints)
    /\ calls = [t \in Tasks |-> IdleCall]
    /\ sweeps = NoSweeps(endpoints)
    /\ streak = [u \in UrlsOf(endpoints) |-> 0]
    /\ lastOutcome = [u \in UrlsOf(endpoints) |-> "none"]
    /\ solo = TRUE
    /\ fee_history = <<>>
    /\ frame = InitialLocals
    /\ outcome = NoOutcome
    /\ hist = NoHistory
    /\ now = 0
    /\ fee_calls = [t \in FeeTasks |-> IdleFeeCall]
    /\ direct_call = NoDirectCall

BundleInit ==
    OneEndpoint /\ (ValidationInputs \/ RetryInputs \/ SigningInputs \/ ResignInputs)

\* the endpoint answers the attempt of the bundle's call: any attempt may
\* succeed, and an attempt may fail while fewer than MaxRpcErrors calls of this
\* bundle have failed
EndpointAnswers(ok) ==
    /\ ok \/ hist.rpc_errors < MaxRpcErrors
    /\ CompleteCall(0, ok)

BundleNext ==
    \/ EnterBundle
    \/ FeesReply
    \/ FeesAdjust
    \/ FeesRecord
    \/ BuildTransactions
    \/ StartTransaction
    \/ AfterBlockhash
    \/ AfterSend
    \/ AfterRehash
    \/ AfterBackoff
    \/ WaitForConfirmation
    \/ AfterPollConfirmed
    \/ AfterPollFinalized
    \/ AfterPollGetTransaction
    \/ AfterDetails
    \/ ReturnResponse
    \/ PickEndpoint(0)
    \/ \E ok \in BOOLEAN : EndpointAnswers(ok)

Spec == BundleInit /\ [][BundleNext]_vars


(***************************************************************************)
(* TransactionSimulator on its own: estimate_compute_units called on a     *)
(* transaction, under each security policy.                                *)
(***************************************************************************)
\* the longest instruction list handed to the simulator
MaxEstimated == 141

\* an instruction without accounts of the system program
Bare == [program_id |-> "System", keys |-> <<>>, data_b64 |-> Decodes(<<>>)]

\* Transaction::new_with_payer of n such instructions, written out
BareTransaction(n) ==
    [message |->
        [account_keys |-> <<FeePayerPubkey, "System">>,
         instructions |->
            [i \in 1..n |-> [program_id_index |-> 2, accounts |-> <<>>, data |-> <<>>]],
         recent_blockhash |-> 0],
     signatures |-> <<DefaultSignature>>]

\* transactions of short lists of any instructions, and of long lists around
\* the length at which the per-instruction estimate meets the ceiling
EstimatedTransactions ==
    {NewWithPayer(ConvertInstructions(instruction_data).instructions,
                  FeePayerPubkey) :
        instruction_data \in SeqsUpTo({Transfer, Foreign, Bare}, MaxInstructions)}
    \cup {BareTransaction(n) : n \in (MaxEstimated - 4)..MaxEstimated}

\* compute_units_consumed of the simulation: None, the value of
\* simulate_transaction, and values around the floor and the ceiling
SimulatedUnits ==
    {<<>>} \cup {<<cu>> : cu \in {0, 1, 833, 834, MockComputeUnits, 1166666,
                                 1166667, 100000000}}

SimulatorPolicies ==
    {OpenSecurity,
     [OpenSecurity EXCEPT !.validate_instructions = FALSE],
     [OpenSecurity EXCEPT !.program_whitelist = {"System"}],
     [OpenSecurity EXCEPT !.max_bundle_size = MaxEstimated]}

EstimateCall ==
    /\ direct_call.op = "none"
    /\ \E transaction \in EstimatedTransactions, consumed \in SimulatedUnits :
            direct_call' =
                [op |-> "estimate_compute_units",
                 instructions |-> Len(transaction.message.instructions),
                 programs |-> {ix.program_id :
                                ix \in {DecompiledInstructions(transaction)[i] :
                                            i \in DOMAIN transaction.message.instructions}},
                 compute_units_consumed |-> consumed,
                 result |-> <<EstimateComputeUnits(config.security, transaction,
                                                   consumed)>>]
    /\ UNCHANGED <<poolVars, bundleVars, now, fee_calls>>

SimulatorInit ==
    /\ OneEndpoint
    /\ request = [atomic |-> TRUE, signers |-> <<>>,
                  compute |-> [limit |-> AutoLimit, price |-> AutoPrice,
                               max_price_lamports |-> 10000],
                  instructions |-> <<>>]
    /\ config \in [security : SimulatorPolicies, fees : {DefaultFeeStrategy},
                    signing : {LocalSigning}]

SimulatorNext == EstimateCall

SimulatorSpec == SimulatorInit /\ [][SimulatorNext]_vars

(***************************************************************************)
(* SigningManager::sign_transaction on its own: the method is public and   *)
(* takes any Transaction.                                                  *)
(***************************************************************************)
\* an instruction that names the manager's fee payer as a plain account
Refund ==
    [program_id |-> "System",
     keys |-> <<Meta("Alice", TRUE, TRUE), Meta(FeePayerPubkey, FALSE, TRUE)>>,
     data_b64 |-> Decodes(<<2, 0, 0, 0>> \o ToLeBytes(1, 8))]

\* the transactions handed to sign_transaction: built for the manager's fee
\* payer or for another payer, with a blockhash, some already signed by
\* other signers
PayerChoices == {FeePayerPubkey, "Alice", "Carol"}

SigningTransactions ==
    {SignWithAdditional(LocalSigning,
        [NewWithPayer(ConvertInstructions(instruction_data).instructions, payer)
            EXCEPT !.message.recent_blockhash = blockhash],
        aliases).transaction :
        instruction_data \in SeqsUpTo({Transfer, Joint, Refund}, 2),
        payer \in PayerChoices,
        blockhash \in 1..2,
        aliases \in {<<>>, <<"alice">>, <<"alice", "carol">>}}

SignCall ==
    /\ direct_call.op = "none"
    /\ \E transaction \in SigningTransactions :
            direct_call' =
                [op |-> "sign_transaction",
                 transaction |-> transaction,
                 result |-> <<SignTransaction(config.signing, transaction)>>]
    /\ UNCHANGED <<poolVars, bundleVars, now, fee_calls>>

SignerInit ==
    /\ OneEndpoint
    /\ request = [atomic |-> TRUE, signers |-> <<>>,
                  compute |-> [limit |-> AutoLimit, price |-> AutoPrice,
                               max_price_lamports |-> 10000],
                  instructions |-> <<>>]
    /\ config \in [security : {OpenSecurity}, fees : {DefaultFeeStrategy},
                    signing : {LocalSigning, KmsSigning}]

SignerNext == SignCall

SignerSpec == SignerInit /\ [][SignerNext]_vars

(***************************************************************************)
(* The pool on its own: concurrent callers and health sweeps, configured   *)
(* to retry without delay (the delays are followed in BackoffSpec).        *)
(***************************************************************************)
\* backoff_base_ms and backoff_max_ms are read from the configuration
\* unchecked: a cap that is reached, a base above the cap, and intervals that
\* are not multiples of 4 ms
BackoffConfigs ==
    {[base_ms |-> 4, max_ms |-> 16], [base_ms |-> 8, max_ms |-> 4],
     [base_ms |-> 3, max_ms |-> 8]}

\* the urls are numbered in the order of their first appearance in the list
EndpointConfigs ==
    {eps \in UNION {[1..n -> [url : 1..MaxEndpoints, weight : 1..MaxWeight]] :
                        n \in 0..MaxEndpoints} :
        \A i \in DOMAIN eps : \A u \in 1..(eps[i].url - 1) :
            \E k \in 1..(i - 1) : eps[k].url = u}

PoolInit ==
    /\ endpoints \in EndpointConfigs
    /\ max_retries \in 0..MaxRetries
    /\ backoff_base_ms = 0
    /\ backoff_max_ms = 0
    /\ health_status = NewHealthStatus(endpoints)
    /\ calls = [t \in Tasks |-> IdleCall]
    /\ sweeps = NoSweeps(endpoints)
    /\ streak = [u \in UrlsOf(endpoints) |-> 0]
    /\ lastOutcome = [u \in UrlsOf(endpoints) |-> "none"]
    /\ solo = TRUE
    /\ request = [atomic |-> TRUE, signers |-> <<>>,
                  compute |-> [limit |-> AutoLimit, price |-> AutoPrice,
                               max_price_lamports |-> 10000],
                  instructions |-> <<>>]
    /\ config = [security |-> OpenSecurity, fees |-> DefaultFeeStrategy,
                 signing |-> LocalSigning]
    /\ fee_history = <<>>
    /\ frame = InitialLocals
    /\ outcome = NoOutcome
    /\ hist = NoHistory
    /\ now = 0
    /\ fee_calls = [t \in FeeTasks |-> IdleFeeCall]
    /\ direct_call = NoDirectCall

PoolNext ==
    \/ \E t \in Tasks : BeginCall(t)
    \/ \E t \in Tasks : PickEndpoint(t)
    \/ \E t \in Tasks, ok \in BOOLEAN : CompleteCall(t, ok)
    \/ StartSweep
    \/ \E e \in DOMAIN endpoints, ok \in BOOLEAN : Probe(e, ok)

PoolSpec == PoolInit /\ [][PoolNext]_vars

(***************************************************************************)
(* One caller on its own over every pool, for the calls that use up their  *)
(* attempts on two endpoints.                                              *)
(***************************************************************************)
SoloInit ==
    /\ endpoints \in EndpointConfigs
    /\ max_retries \in 0..MaxSoloRetries
    /\ \E b \in BackoffConfigs :
            backoff_base_ms = b.base_ms /\ backoff_max_ms = b.max_ms
    /\ health_status = NewHealthStatus(endpoints)
    /\ calls = [t \in Tasks |-> IdleCall]
    /\ sweeps = NoSweeps(endpoints)
    /\ streak = [u \in UrlsOf(endpoints) |-> 0]
    /\ lastOutcome = [u \in UrlsOf(endpoints) |-> "none"]
    /\ solo = TRUE
    /\ request = [atomic |-> TRUE, signers |-> <<>>,
                  compute |-> [limit |-> AutoLimit, price |-> AutoPrice,
                               max_price_lamports |-> 10000],
                  instructions |-> <<>>]
    /\ config = [security |-> OpenSecurity, fees |-> DefaultFeeStrategy,
                 signing |-> LocalSigning]
    /\ fee_history = <<>>
    /\ frame = InitialLocals
    /\ outcome = NoOutcome
    /\ hist = NoHistory
    /\ now = 0
    /\ fee_calls = [t \in FeeTasks |-> IdleFeeCall]
    /\ direct_call = NoDirectCall

SoloNext ==
    \/ BeginCall(0)
    \/ PickEndpoint(0)
    \/ \E ok \in BOOLEAN : CompleteCall(0, ok)

SoloSpec == SoloInit /\ [][SoloNext]_vars

(***************************************************************************)
(* The callers of one endpoint under the configurations of the backoff.    *)
(***************************************************************************)
BackoffInit ==
    /\ endpoints = <<[url |-> 1, weight |-> 1]>>
    /\ max_retries \in 0..MaxSoloRetries
    /\ \E b \in BackoffConfigs :
            backoff_base_ms = b.base_ms /\ backoff_max_ms = b.max_ms
    /\ health_status = NewHealthStatus(endpoints)
    /\ calls = [t \in Tasks |-> IdleCall]
    /\ sweeps = NoSweeps(endpoints)
    /\ streak = [u \in UrlsOf(endpoints) |-> 0]
    /\ lastOutcome = [u \in UrlsOf(endpoints) |-> "none"]
    /\ solo = TRUE
    /\ request = [atomic |-> TRUE, signers |-> <<>>,
                  compute |-> [limit |-> AutoLimit, price |-> AutoPrice,
                               max_price_lamports |-> 10000],
                  instructions |-> <<>>]
    /\ config = [security |-> OpenSecurity, fees |-> DefaultFeeStrategy,
                 signing |-> LocalSigning]
    /\ fee_history = <<>>
    /\ frame = InitialLocals
    /\ outcome = NoOutcome
    /\ hist = NoHistory
    /\ now = 0
    /\ fee_calls = [t \in FeeTasks |-> IdleFeeCall]
    /\ direct_call = NoDirectCall

BackoffNext ==
    \/ \E t \in Tasks : BeginCall(t)
    \/ \E t \in Tasks : PickEndpoint(t)
    \/ \E t \in Tasks, ok \in BOOLEAN : CompleteCall(t, ok)

BackoffSpec == BackoffInit /\ [][BackoffNext]_vars

(***************************************************************************)
(* Properties of the endpoint pool.                                        *)
(***************************************************************************)
\* C4: execute_with_failover invokes the operation at most max_retries + 1
\* times; a success is the last invocation of its call; a call over a
\* non-empty pool returns Err(Rpc) exactly when max_retries + 1 invocations
\* have failed, and a running call has always fewer failures than that.
C4_BoundedFailover ==
    \A t \in Tasks :
        /\ calls[t].invoked <= max_retries + 1
        /\ calls[t].pc = "ok" => calls[t].invoked = calls[t].attempts + 1
        /\ calls[t].pc \in {"loop", "picked"} =>
                /\ calls[t].attempts < max_retries + 1
                /\ calls[t].invoked = calls[t].attempts
        /\ (calls[t].pc = "err" /\ endpoints # <<>>) =>
                /\ calls[t].attempts = max_retries + 1
                /\ calls[t].invoked = max_retries + 1

C4_Witness ==
    /\ max_retries = 2
    /\ calls[0].pc = "err"
    /\ calls[0].invoked = 3
    /\ calls[1].pc = "ok"
    /\ calls[1].invoked = 2

\* C5: an endpoint whose 3 or more latest recorded outcomes are failures is
\* unhealthy, and an endpoint whose latest recorded outcome is a success is
\* healthy with consecutive_failures = 0.
C5_ThreeStrikes ==
    \A e \in DOMAIN endpoints :
        /\ streak[endpoints[e].url] >= 3 => ~HealthOf(e).healthy
        /\ lastOutcome[endpoints[e].url] = "S" =>
                /\ HealthOf(e).healthy
                /\ HealthOf(e).consecutive_failures = 0

C5_Witness ==
    /\ Len(endpoints) = 2
    /\ streak[endpoints[1].url] >= 3
    /\ lastOutcome[endpoints[2].url] = "S"
    /\ sweeps.started > 0
    /\ \E t \in Tasks : calls[t].invoked > 0

\* C6: with at least one endpoint configured, get_best_endpoint returns an
\* endpoint (never an error): one of maximal weight among the healthy
\* endpoints, or of maximal weight among all when none is healthy.
C6_BestEndpoint ==
    endpoints # <<>> =>
        LET b == GetBestEndpoint(endpoints, health_status)
            idx == DOMAIN endpoints
            healthy == {i \in idx : HealthOf(i).healthy}
        IN  /\ b \in idx
            /\ healthy # {} =>
                    /\ b \in healthy
                    /\ \A j \in healthy : endpoints[j].weight <= endpoints[b].weight
            /\ healthy = {} =>
                    \A j \in idx : endpoints[j].weight <= endpoints[b].weight

C6_Witness ==
    /\ Len(endpoints) = 2
    /\ endpoints[1].weight > endpoints[2].weight
    /\ ~HealthOf(1).healthy
    /\ HealthOf(2).healthy
    /\ GetBestEndpoint(endpoints, health_status) = 2

\* the endpoint a fresh pool prefers
Preferred == GetBestEndpoint(endpoints, NewHealthStatus(endpoints))

\* task 0's first call has returned Err(Rpc) over two endpoints, and every
\* outcome recorded so far is a failure of that call
SoloCallFailed ==
    /\ solo
    /\ Len(endpoints) = 2
    /\ calls[0].pc = "err"

\* C7 as stated: after the failed call both endpoints are unhealthy with
\* consecutive_failures >= 3.
C7_Original ==
    SoloCallFailed =>
        /\ calls[0].attempts = max_retries + 1
        /\ \A e \in DOMAIN endpoints :
                /\ ~HealthOf(e).healthy
                /\ HealthOf(e).consecutive_failures >= 3

\* C7 amended: the call makes max_retries + 1 attempts and returns one Rpc
\* error.  Over two urls the attempts go to the preferred endpoint until it
\* has 3 consecutive failures, then to the other one until it has 3, then to
\* the fallback; an endpoint is unhealthy exactly when it has 3 or more
\* consecutive failures, and both are unhealthy only when
\* max_retries + 1 >= 6.  Two endpoints of one url share one record, which
\* counts all the attempts.
C7_Amended ==
    SoloCallFailed =>
        LET n == max_retries + 1
            p == Preferred
            o == 3 - p
        IN  /\ calls[0].attempts = n
            /\ \A e \in DOMAIN endpoints :
                   HealthOf(e).healthy <=> HealthOf(e).consecutive_failures < 3
            /\ IF endpoints[1].url = endpoints[2].url
               THEN HealthOf(p).consecutive_failures = n
               ELSE /\ HealthOf(p).consecutive_failures
                          + HealthOf(o).consecutive_failures = n
                    /\ HealthOf(p).consecutive_failures >= MinOf(n, 3)
                    /\ HealthOf(o).consecutive_failures
                          >= MinOf(MaxOf(n - 3, 0), 3)
                    /\ (\A e \in DOMAIN endpoints : ~HealthOf(e).healthy)
                          <=> n >= 6

C7_Witness ==
    /\ SoloCallFailed
    /\ max_retries = 3
    /\ endpoints[1].url # endpoints[2].url
    /\ HealthOf(Preferred).consecutive_failures = 3
    /\ ~HealthOf(Preferred).healthy
    /\ HealthOf(3 - Preferred).consecutive_failures = 1
    /\ HealthOf(3 - Preferred).healthy

(***************************************************************************)
(* Properties of process_bundle.                                           *)
(***************************************************************************)
Response == outcome.response[1]
Converted == ConvertInstructions(request.instructions)
SendsOf(k) == {j \in DOMAIN hist.sent : hist.sent[j].index = k}
LastSendOf(k) == CHOOSE j \in SendsOf(k) : \A l \in SendsOf(k) : l <= j

\* C1: in atomic mode nothing follows the first transaction whose result is
\* failed, however it failed: no later transaction is simulated, signed or
\* sent or has a result, the response has status failed, and a transaction
\* that ended with an error takes process_bundle out of its loop at once.
C1_AtomicStopsAtFirstFailure ==
    request.atomic =>
        /\ \A k \in DOMAIN frame.results :
            frame.results[k].status = "Failed" =>
                /\ k = Len(frame.results)
                /\ frame.i <= k
                /\ \A j \in hist.simulated \cup hist.signed : j <= k
                /\ \A j \in DOMAIN hist.sent : hist.sent[j].index <= k
                /\ outcome.kind = "response" =>
                        /\ Response.status = "Failed"
                        /\ Len(Response.transactions) = k
        /\ (/\ frame.results # <<>>
            /\ frame.results[Len(frame.results)].error # <<>>
            /\ frame.pc # "done") => frame.pc = "break"

\* an atomic bundle has answered after its transaction was sent and the send
\* failed: one failed result with the error, status failed
C1_Witness ==
    /\ request.atomic
    /\ outcome.kind = "response"
    /\ Response.status = "Failed"
    /\ Len(Response.transactions) = 1
    /\ Response.transactions[1].status = "Failed"
    /\ Response.transactions[1].error # <<>>
    /\ hist.sent # <<>>

\* C2: a transaction is sent at most 3 times; once it has been sent,
\* submission ends either with the signature of the send that succeeded or,
\* after 3 failed sends, with an error of kind Transaction, and with such an
\* error only then.
C2_ThreeSendsBeforeGivingUp ==
    \A k \in DOMAIN frame.results :
        LET result == frame.results[k]
            sends == Cardinality(SendsOf(k))
        IN  /\ sends <= 3
            /\ (sends >= 1 /\ result.signature # <<>>) =>
                    result.signature[1] =
                        hist.sent[LastSendOf(k)].transaction.signatures[1]
            /\ (sends >= 1 /\ result.signature = <<>>) =>
                    /\ sends = 3
                    /\ result.error[1].kind = "Transaction"
            /\ (result.error # <<>> /\ result.error[1].kind = "Transaction") =>
                    sends = 3

\* the price a transaction's set-price instruction carries in data bytes 1..9
SetPriceOf(transaction) ==
    LET m == transaction.message
        k == CHOOSE i \in DOMAIN m.instructions :
                /\ m.account_keys[m.instructions[i].program_id_index]
                        = ComputeBudgetProgram
                /\ m.instructions[i].data[1] = 3
    IN  FromLeBytes(SubSeq(m.instructions[k].data, 2, 9))
CeilTimesOneAndAHalf(price) == (3 * price + 1) \div 2

\* C3: with fee bumping enabled, a bundle of at least one instruction whose
\* first send failed and that met no other RPC error ends with a response
\* whose retry_attempts is 1;
\* the transaction was sent a second time with the price
\* ceil(original * 1.5) in its set-price instruction, and the bundle status
\* is success unless the confirmation failed.
C3_BumpedResubmission ==
    (/\ frame.pc = "done"
     /\ request.instructions # <<>>
     /\ config.fees.enable_bump
     /\ config.fees.max_bump_attempts >= 1
     /\ frame.retry_attempts = 1
     /\ hist.rpc_errors = 1)
    => /\ outcome.kind = "response"
       /\ Response.metrics.retry_attempts = 1
       /\ Len(hist.sent) = 2
       /\ SetPriceOf(hist.sent[2].transaction)
            = CeilTimesOneAndAHalf(SetPriceOf(hist.sent[1].transaction))
       /\ Response.transactions[1].status # "Failed" => Response.status = "Success"

\* C8: a request whose instructions decode and pass validation ends with a
\* BundleResponse, never with an error; a failed step shows as a result of
\* status failed and the status of the bundle is then failed.
C8_AlwaysAResponse ==
    (/\ frame.pc = "done"
     /\ Converted.ok
     /\ ValidateInstructions(config.security, Converted.instructions).kind = "none")
    => /\ outcome.kind = "response"
       /\ (\E k \in DOMAIN Response.transactions :
                Response.transactions[k].status = "Failed")
            => Response.status = "Failed"

\* the allow-list is non-empty and some instruction's program is outside it
OutsideAllowList ==
    /\ config.security.program_whitelist # {}
    /\ \E i \in DOMAIN request.instructions :
            request.instructions[i].program_id
                \notin config.security.program_whitelist
RejectedUnlisted ==
    /\ outcome.kind = "error"
    /\ outcome.error = Err("Simulation", "not whitelisted")
    /\ hist.rpcs = {}
    /\ hist.signed = {}
    /\ hist.sent = <<>>

\* C9 as stated: a request with a program outside a non-empty allow-list
\* fails with Simulation "not whitelisted" before any RPC or signature.
C9_Original ==
    (frame.pc = "done" /\ OutsideAllowList) => RejectedUnlisted

\* C9 amended: the same, for a bundler whose instruction validation is
\* enabled and a request whose instruction data all decode and whose
\* instructions number at most max_bundle_size.
C9_Amended ==
    (/\ frame.pc = "done"
     /\ OutsideAllowList
     /\ config.security.validate_instructions
     /\ Converted.ok
     /\ Len(request.instructions) <= config.security.max_bundle_size)
    => RejectedUnlisted

C9_Witness ==
    /\ frame.pc = "done"
    /\ config.security.validate_instructions
    /\ config.security.program_whitelist = {"System"}
    /\ request.instructions = <<Transfer, Foreign>>
    /\ outcome.kind = "error"

\* the number of writable accounts of an instruction
WritableAccounts(instruction) ==
    Cardinality({k \in DOMAIN instruction.accounts :
                    instruction.accounts[k].is_writable})

\* the first of the three violations in a list, "" if there is none
FirstViolation(sec, instructions) ==
    IF Len(instructions) > sec.max_bundle_size THEN "too many instructions"
    ELSE IF sec.program_whitelist # {}
            /\ \E i \in DOMAIN instructions :
                    instructions[i].program_id \notin sec.program_whitelist
    THEN "not whitelisted"
    ELSE IF \E i \in DOMAIN instructions :
                WritableAccounts(instructions[i]) > sec.max_writable_accounts
    THEN "too many writable accounts"
    ELSE ""

\* C10: once validation has run on the decoded instructions, the bundle is
\* rejected with a Simulation error exactly when the list is too long, or
\* has a program outside a non-empty allow-list, or has an instruction with
\* more writable accounts than max_writable_accounts, and the error names
\* the first of these violations.
C10_ValidationOrder ==
    (/\ frame.pc # "start"
     /\ Converted.ok
     /\ config.security.validate_instructions)
    => LET violation == FirstViolation(config.security, Converted.instructions)
           rejected == outcome.kind = "error" /\ outcome.error.kind = "Simulation"
       IN  /\ rejected <=> violation # ""
           /\ rejected => outcome.error.msg = violation

(***************************************************************************)
(* Properties of the fee manager.                                          *)
(***************************************************************************)
\* the fee a finished calculate_fee call of task t returned, if it returned one
Returns(t) == fee_calls[t].pc = "done" /\ fee_calls[t].result[1].ok
ReturnedFee(t) == fee_calls[t].result[1].fee

\* C11: every fee that calculate_fee returns is at most
\* strategy.max_price_lamports, whatever the recent-fee list (the empty one
\* included), the history and the strategy (a ceiling of 0 included).
C11_FeeWithinCeiling ==
    \A t \in FeeTasks :
        Returns(t) => ReturnedFee(t) <= config.fees.max_price_lamports

\* a direct bump_fee call with bumping enabled and attempt <= max_bump_attempts
BumpWithinAttempts ==
    /\ direct_call.op = "bump_fee"
    /\ config.fees.enable_bump
    /\ direct_call.attempt <= config.fees.max_bump_attempts
BumpResult == direct_call.result[1]

\* C12 as stated: bump_fee(x, k) with bumping enabled and k <= max_bump_attempts
\* returns r with r >= x and r <= max_price_lamports, for every x.
C12_Original ==
    BumpWithinAttempts =>
        /\ BumpResult.ok
        /\ BumpResult.fee >= direct_call.original_fee
        /\ BumpResult.fee <= config.fees.max_price_lamports

\* C12 amended: such a call returns r <= max_price_lamports, with r >= x
\* whenever x <= max_price_lamports; an x above the ceiling comes back as the
\* ceiling itself.
C12_Amended ==
    BumpWithinAttempts =>
        /\ BumpResult.ok
        /\ BumpResult.fee <= config.fees.max_price_lamports
        /\ direct_call.original_fee <= config.fees.max_price_lamports
                => BumpResult.fee >= direct_call.original_fee
        /\ direct_call.original_fee > config.fees.max_price_lamports
                => BumpResult.fee = config.fees.max_price_lamports

C12_Witness ==
    /\ BumpWithinAttempts
    /\ direct_call.attempt = 1
    /\ direct_call.original_fee = 150000
    /\ config.fees.max_price_lamports = 100000
    /\ BumpResult = [ok |-> TRUE, fee |-> 100000]

\* the samples are held oldest first: each was recorded after the one before
InInsertionOrder(history) ==
    \A i \in 1..(Len(history) - 1) : history[i].timestamp < history[i + 1].timestamp

\* a step in which some task records the fee it computed
Records(t) == fee_calls[t].pc = "record" /\ fee_calls'[t].pc = "done"

\* C13: whatever calls of calculate_fee have run, concurrent ones included,
\* the history holds at most 100 samples in insertion order, and recording
\* into a full history evicts exactly the oldest sample: every recording
\* appends the new sample at the end and leaves the others as they were.
C13_BoundedHistory ==
    /\ [](Len(fee_history) <= MaxHistorySize /\ InInsertionOrder(fee_history))
    /\ [][\A t \in FeeTasks : Records(t) =>
            LET sample == FeeDataPoint(config.fees, fee_calls[t].final_fee, now)
            IN  fee_history' = IF Len(fee_history) = MaxHistorySize
                               THEN Append(Tail(fee_history), sample)
                               ELSE Append(fee_history, sample)]_vars

\* both tasks have recorded into a history that was full
C13_Witness ==
    /\ Len(fee_history) = MaxHistorySize
    /\ fee_history[1].timestamp >= 2
    /\ \A t \in FeeTasks : Returns(t) /\ fee_calls[t].recent_fees # <<>>
    /\ \E i \in 1..(MaxHistorySize - 1) :
            fee_history[i].fee_lamports # fee_history[i + 1].fee_lamports

(***************************************************************************)
(* Properties of the orchestrator's pipeline.                              *)
(***************************************************************************)
\* positions of process_single_transaction after simulation, and after the send
InFlight == {"blockhash", "send", "rehash", "backoff", "confirm", "confirmed",
             "processed", "finalized", "details"}
Confirming == {"confirm", "confirmed", "processed", "finalized", "details"}

\* C14: each transaction goes through simulate, fetch blockhash, sign, send,
\* confirm in that order, a step starting only after the previous one
\* succeeded: the blockhash is written only into a transaction whose
\* simulation succeeded, every send carries the fee payer's signature and
\* every signature it carries is one over the message with its current,
\* fetched blockhash, confirmation is polled only for the signature of the
\* last send, and the transactions are taken one after another in input
\* order.
C14_StepOrder ==
    LET k == frame.i
    IN  /\ hist.simulated = 1..k
        /\ frame.pc \in InFlight =>
                /\ Len(frame.results) = k - 1
                /\ SimulateTransaction(config.security,
                                       frame.transactions[k]).kind = "none"
        /\ frame.transaction.message.recent_blockhash # 0 =>
                /\ k \in hist.simulated
                /\ SimulateTransaction(config.security,
                                       frame.transactions[k]).kind = "none"
                /\ frame.transaction.message.recent_blockhash \in 1..hist.fetched
        /\ hist.signed \subseteq hist.simulated
        /\ k \in hist.signed => hist.fetched >= 1
        /\ \A j \in DOMAIN hist.sent :
                LET s == hist.sent[j]
                IN  /\ s.index \in hist.signed
                    /\ s.index <= k
                    /\ Len(frame.results) >= s.index - 1
                    /\ j > 1 => hist.sent[j - 1].index <= s.index
                    /\ s.transaction.message.recent_blockhash \in 1..hist.fetched
                    /\ s.transaction.signatures[1].signer =
                            config.signing.fee_payer.pubkey
                    /\ \A i \in DOMAIN s.transaction.signatures :
                            s.transaction.signatures[i] # DefaultSignature =>
                                s.transaction.signatures[i].over
                                    = s.transaction.message
        /\ frame.pc \in Confirming =>
                /\ hist.sent # <<>>
                /\ hist.sent[Len(hist.sent)].index = k
                /\ frame.signature = hist.sent[Len(hist.sent)].transaction.signatures[1]

\* C15: a transaction that was sent but neither confirmed nor found by
\* get_transaction before the confirmation wait expired gets a result with
\* status failed, no error and the signature of its last send; no error is
\* raised out of process_bundle, and the bundle's status is failed.
C15_TimeoutIsAFailedResult ==
    \A k \in hist.timeouts :
        /\ k <= Len(frame.results)
        /\ frame.results[k].status = "Failed"
        /\ frame.results[k].error = <<>>
        /\ SendsOf(k) # {}
        /\ frame.results[k].signature =
                <<hist.sent[LastSendOf(k)].transaction.signatures[1]>>
        /\ outcome.kind \in {"none", "response"}
        /\ outcome.kind = "response" =>
                /\ Response.status = "Failed"
                /\ Response.transactions = frame.results

\* the bundle whose transaction timed out has returned its response
C15_Witness ==
    /\ hist.timeouts = {1}
    /\ outcome.kind = "response"
    /\ Response.transactions[1].status = "Failed"
    /\ Response.transactions[1].signature # <<>>
    /\ Response.status = "Failed"

\* C16: in best-effort (non-atomic) mode the loop never stops early: the
\* response of a bundle holds one result per derived transaction, every one
\* of them was processed, a result that carries a signature carries one over
\* the instructions of the transaction at its position, and the bundle's
\* status is failed exactly when some result is failed.
C16_BestEffort ==
    ~request.atomic =>
        /\ frame.pc # "break"
        /\ outcome.kind = "response" =>
            /\ Len(Response.transactions) = Len(frame.transactions)
            /\ hist.simulated = DOMAIN frame.transactions
            /\ \A k \in DOMAIN Response.transactions :
                    Response.transactions[k].signature # <<>> =>
                        Response.transactions[k].signature[1].over.instructions
                            = frame.transactions[k].message.instructions
            /\ Response.status \in {"Success", "Failed"}
            /\ Response.status = "Failed" <=>
                    \E k \in DOMAIN Response.transactions :
                        Response.transactions[k].status = "Failed"

\* a best-effort bundle answered with a failed result that has a signature,
\* the loop's own status still being success
C16_Witness ==
    /\ ~request.atomic
    /\ outcome.kind = "response"
    /\ frame.overall_status = "Success"
    /\ Response.status = "Failed"
    /\ Len(Response.transactions) = Len(frame.transactions)
    /\ Response.transactions[1].status = "Failed"

\* the confirmation level a result shows: a failed one was observed at none
ObservedLevel(result) ==
    IF result.status \in {"Processed", "Confirmed", "Finalized"}
    THEN result.status ELSE "Unprocessed"
LevelRank(level) ==
    CASE level = "Unprocessed" -> 0 [] level = "Processed" -> 1
      [] level = "Confirmed" -> 2 [] level = "Finalized" -> 3

\* C17: the response's confirmation is the strongest level observed across
\* its results (unprocessed < processed < confirmed < finalized); a response
\* whose results are all failed reports unprocessed.
C17_StrongestConfirmation ==
    outcome.kind = "response" =>
        /\ \A k \in DOMAIN Response.transactions :
                LevelRank(ObservedLevel(Response.transactions[k]))
                    <= LevelRank(Response.confirmation)
        /\ \/ Response.confirmation = "Unprocessed"
           \/ \E k \in DOMAIN Response.transactions :
                ObservedLevel(Response.transactions[k]) = Response.confirmation

\* the positions of the results that did not fail
Succeeded(response) ==
    {k \in DOMAIN response.transactions : response.transactions[k].status # "Failed"}

\* C18: the response's bundle_signature is the signature of the first result
\* whose status is not failed, and is absent when no transaction succeeded.
C18_FirstSuccessfulSignature ==
    outcome.kind = "response" =>
        IF Succeeded(Response) = {}
        THEN Response.bundle_signature = <<>>
        ELSE LET first == CHOOSE k \in Succeeded(Response) :
                            \A l \in Succeeded(Response) : k <= l
             IN  Response.bundle_signature = Response.transactions[first].signature

\* the element of the ascending list at index ceil(n * p / 100) - 1, clamped
\* to [0, n - 1]
NearestRank(fees, p) ==
    LET n == Len(fees)
        k == MinOf(MaxOf(((n * p + 99) \div 100) - 1, 0), n - 1)
    IN  SortAscending(fees)[k + 1]

\* C19: the base fee of a non-empty fee list is sorted[k] with
\* k = ceil(n * p / 100) - 1 clamped to [0, n - 1]; p = 75 over
\* [100, 200, 300, 400, 500] gives 400.
C19_NearestRankPercentile ==
    /\ direct_call.op = "calculate_percentile_fee" =>
            direct_call.result[1].fee
                = NearestRank(direct_call.fees, config.fees.base_percentile)
    /\ \A t \in FeeTasks :
            fee_calls[t].pc \in {"adjust", "record"} =>
                fee_calls[t].base_fee
                    = NearestRank(fee_calls[t].recent_fees, config.fees.base_percentile)

\* C20: when the recent-fee list is not empty, calculate_fee returns a fee of
\* at least 1, never 0, whatever the fee values (zeros included), the trend
\* adjustment and the buffer.
C20_NeverZero ==
    \A t \in FeeTasks :
        Returns(t) /\ fee_calls[t].recent_fees # <<>> => ReturnedFee(t) >= 1

(***************************************************************************)
(* Edge cases of the fee manager.                                          *)
(***************************************************************************)
\* a calculate_fee call of task t that was answered an empty list of recent
\* prioritization fees and returned
EmptyListReturn(t) == Returns(t) /\ fee_calls[t].recent_fees = <<>>

\* C21: when the recent prioritization fee list is empty, calculate_fee
\* returns exactly 1, whatever the adaptive flag, the buffer percent and the
\* contents of the fee history.
C21_EmptyListReturnsOne ==
    \A t \in FeeTasks : EmptyListReturn(t) => ReturnedFee(t) = 1

\* an empty list answered to an adaptive manager whose history shows rising
\* fees, with the buffer on
C21_Witness ==
    /\ \E t \in FeeTasks : EmptyListReturn(t)
    /\ config.fees.adaptive
    /\ config.fees.buffer_percent > 0
    /\ AnalyzeFeeTrend(fee_history).direction = "Rising"

\* a direct bump_fee call, its arguments and the strategy's settings
Bumped == direct_call.op = "bump_fee"
BumpScale == Pow(2, direct_call.attempt)
BumpProduct == direct_call.original_fee * Pow(3, direct_call.attempt)

\* C22: bump_fee(original, attempt) returns original unchanged when bumping
\* is disabled; fails with a Transaction error when bumping is enabled and
\* attempt > max_bump_attempts; otherwise it returns
\* min(original * 1.5^attempt, max_price_lamports), the product cut to a whole
\* number of lamports: 1000 gives 1500 at attempt 1 and 2250 at attempt 2.
C22_BumpFeeCases ==
    Bumped =>
        /\ ~config.fees.enable_bump
                => BumpResult.ok /\ BumpResult.fee = direct_call.original_fee
        /\ config.fees.enable_bump
            /\ direct_call.attempt > config.fees.max_bump_attempts
                => ~BumpResult.ok /\ BumpResult.error.kind = "Transaction"
        /\ BumpWithinAttempts
                => /\ BumpResult.ok
                   /\ IF BumpProduct >= config.fees.max_price_lamports * BumpScale
                      THEN BumpResult.fee = config.fees.max_price_lamports
                      ELSE /\ BumpResult.fee * BumpScale <= BumpProduct
                           /\ BumpProduct < (BumpResult.fee + 1) * BumpScale
        /\ BumpWithinAttempts /\ direct_call.original_fee = 1000
            /\ config.fees.max_price_lamports >= 2250
                => /\ direct_call.attempt = 1 => BumpResult.fee = 1500
                   /\ direct_call.attempt = 2 => BumpResult.fee = 2250

\* the second bump of 1000 under the default strategy
C22_Witness ==
    /\ BumpWithinAttempts
    /\ direct_call.original_fee = 1000
    /\ direct_call.attempt = 2
    /\ BumpResult = [ok |-> TRUE, fee |-> 2250]

\* C23: with max_bump_attempts = 0, every call to bump_fee fails with an
\* error, for every original price and every attempt value, 0 included.
C23_NoAttemptsAlwaysFails ==
    Bumped /\ config.fees.max_bump_attempts = 0 => ~BumpResult.ok

(***************************************************************************)
(* Edge cases of the orchestrator's pipeline.                              *)
(***************************************************************************)
\* the bundle was turned away because of a program id
RejectedOnProgramId ==
    outcome.kind = "error" /\ outcome.error = Err("Simulation", "not whitelisted")

\* C24: with an empty allow-list, validate_instructions never rejects an
\* instruction list because of a program id: a decodable list within the
\* bundle-size limit passes validation whatever its program ids.
C24_EmptyAllowListAdmitsAll ==
    (frame.pc # "start" /\ config.security.program_whitelist = {})
    => /\ ~RejectedOnProgramId
       /\ (Converted.ok
            /\ Len(request.instructions) <= config.security.max_bundle_size)
                => ValidateInstructions(config.security,
                                        Converted.instructions).kind = "none"

\* validation is on, the allow-list is empty, the list holds two different
\* programs, and the bundle went on to the build step
C24_Witness ==
    /\ frame.pc = "build"
    /\ config.security.validate_instructions
    /\ config.security.program_whitelist = {}
    /\ request.instructions = <<Transfer, Foreign>>

\* some instruction of the request carries data that is not base64
HasUndecodable ==
    \E i \in DOMAIN request.instructions : ~request.instructions[i].data_b64.ok

\* C25: process_bundle on a request containing an instruction whose data_b64
\* is not valid base64 returns an error of kind InvalidInput; no RPC is
\* issued, no transaction is built or signed, and no BundleResponse is
\* produced.
C25_UndecodableFailsFast ==
    (frame.pc # "start" /\ HasUndecodable)
    => /\ frame.pc = "done"
       /\ outcome.kind = "error"
       /\ outcome.error.kind = "InvalidInput"
       /\ outcome.response = <<>>
       /\ hist.rpcs = {}
       /\ frame.transactions = <<>>
       /\ hist.simulated = {}
       /\ hist.signed = {}
       /\ hist.sent = <<>>

\* a decodable instruction of an unlisted program, then an undecodable one
C25_Witness ==
    /\ frame.pc = "done"
    /\ request.instructions = <<Foreign, Garbled>>
    /\ config.security.validate_instructions
    /\ config.security.program_whitelist = {"System"}
    /\ outcome.error.kind = "InvalidInput"

\* C27: process_bundle rejects a request whose instruction list is empty:
\* such a request never leads to a transaction being built, signed or sent.
C27_EmptyRequestRejected ==
    (frame.pc # "start" /\ request.instructions = <<>>)
    => /\ frame.pc = "done"
       /\ outcome.kind = "error"
       /\ frame.transactions = <<>>
       /\ hist.signed = {}
       /\ hist.sent = <<>>

\* C28: the compute-unit price carried by any transaction that
\* process_bundle sends never exceeds the request's
\* compute.max_price_lamports, for both the auto and the fixed price policy
\* and after any number of fee bumps.
C28_PriceWithinRequestCeiling ==
    \A j \in DOMAIN hist.sent :
        SetPriceOf(hist.sent[j].transaction) <= request.compute.max_price_lamports

\* the transaction as it was first sent for the k-th slot of the bundle
FirstSendOf(k) ==
    hist.sent[CHOOSE j \in SendsOf(k) : \A l \in SendsOf(k) : j <= l].transaction

\* the keys of the fee payer and of the configured signers among `aliases`
KeysOf(aliases) ==
    {config.signing.fee_payer.pubkey}
    \cup {config.signing.additional_signers[aliases[i]].pubkey :
            i \in {j \in DOMAIN aliases :
                        aliases[j] \in DOMAIN config.signing.additional_signers}}

\* every signature slot of a key in `keys` holds that key's signature over
\* the transaction's message, and every other slot is unsigned
SignedByExactly(transaction, keys) ==
    \A i \in DOMAIN transaction.signatures :
        transaction.signatures[i] =
            IF transaction.message.account_keys[i] \in keys
            THEN [signer |-> transaction.message.account_keys[i],
                  over |-> transaction.message]
            ELSE DefaultSignature

\* signing of the k-th transaction failed: its result is a Signing error and
\* it was never sent
SigningFailed(k) ==
    /\ SendsOf(k) = {}
    /\ Len(frame.results) >= k =>
            /\ frame.results[k].status = "Failed"
            /\ frame.results[k].error # <<>>
            /\ frame.results[k].error[1].kind = "Signing"

\* what the signing step owes to a list of signers of which `aliases` are to
\* sign: the first send carries the signatures of the fee payer and of
\* these, and of nobody else; with an alias that is not configured, signing
\* fails and nothing is sent
SigningStepHonours(aliases) ==
    \A k \in hist.signed :
        IF \E i \in DOMAIN aliases :
                aliases[i] \notin DOMAIN config.signing.additional_signers
        THEN SigningFailed(k)
        ELSE SendsOf(k) # {} => SignedByExactly(FirstSendOf(k), KeysOf(aliases))

\* C29 as stated: when the request lists no signers, only the fee payer
\* signs; when it lists signers, the fee payer signs and then every listed
\* signer signs, in list order; a listed signer that is not configured in
\* the signer set makes signing fail with a Signing error, and the
\* transaction is never sent.
C29_Original == SigningStepHonours(request.signers)

\* the aliases the request's signers carry, in list order
ListedAliases == SelectSeq(request.signers, LAMBDA a : a # "")

\* C29 amended: the same, about the aliases that the request's signers
\* carry: an entry without an alias is passed over, and a request whose
\* signers carry no alias at all is signed by the fee payer only.
C29_Amended == SigningStepHonours(ListedAliases)

\* both configured signers were listed, the second one first, and the
\* transaction went out with the three signatures
C29_Witness ==
    /\ request.signers = <<"carol", "alice">>
    /\ request.instructions = <<Joint>>
    /\ SendsOf(1) # {}
    /\ Len(FirstSendOf(1).signatures) = 3
    /\ SignedByExactly(FirstSendOf(1), {FeePayerPubkey, "Alice", "Carol"})

\* wait_for_confirmation has returned for transaction k: its result carries
\* the signature it waited on
Classified(k) ==
    /\ k \in DOMAIN hist.polls
    /\ Len(frame.results) >= k
    /\ frame.results[k].signature # <<>>
Negative(answer) == answer \in {"no", "err"}

\* C30: wait_for_confirmation classifies a submitted transaction as finalized
\* when the poll at 'confirmed' and the follow-up poll at 'finalized' are
\* both positive; as confirmed when the first is positive and the second is
\* negative or fails; as processed when the poll at 'confirmed' is not
\* positive but get_transaction finds the transaction; and as failed only
\* when none of these happens before the wait expires.  An RPC error in a
\* poll never ends the wait by itself: after an iteration whose polls were
\* negative or failed, the loop is back at its head.
C30_Classification ==
    /\ [](\A k \in DOMAIN hist.polls :
            Classified(k) =>
                LET status == frame.results[k].status
                    last == hist.polls[k]
                IN  /\ status \in {"Finalized", "Confirmed", "Processed", "Failed"}
                    /\ status = "Finalized"
                        <=> last.confirmed = "yes" /\ last.finalized = "yes"
                    /\ status = "Confirmed"
                        <=> last.confirmed = "yes" /\ Negative(last.finalized)
                    /\ status = "Processed"
                        <=> Negative(last.confirmed) /\ last.found = "yes"
                    /\ status = "Failed"
                        <=> /\ Negative(last.confirmed) /\ Negative(last.found)
                            /\ k \in hist.timeouts)
    /\ [][(frame.pc = "processed" /\ frame'.pc # "processed"
                /\ Negative(hist'.polls[frame.i].found))
            => (frame'.pc = "confirm" /\ frame'.results = frame.results)]_vars

\* the poll at 'confirmed' was positive and the poll at 'finalized' failed
C30_Witness ==
    /\ Classified(1)
    /\ hist.polls[1] = [confirmed |-> "yes", finalized |-> "err", found |-> "none"]
    /\ frame.results[1].status = "Confirmed"

(***************************************************************************)
(* Properties of the simulator.                                            *)
(***************************************************************************)
\* an estimate_compute_units call that returned a value
Estimated ==
    direct_call.op = "estimate_compute_units" /\ direct_call.result[1].ok

\* C26: every value returned by estimate_compute_units lies in
\* [1_000, 1_400_000], for every simulated consumed-units value (present or
\* absent) and every number of instructions in the transaction.
C26_EstimateInRange ==
    Estimated => /\ direct_call.result[1].units >= 1000
                 /\ direct_call.result[1].units <= 1400000

\* the consumed-units value was absent and the count of instructions alone
\* put the estimate at the ceiling
C26_Witness ==
    /\ Estimated
    /\ direct_call.compute_units_consumed = <<>>
    /\ direct_call.instructions >= 140
    /\ direct_call.result[1].units = 1400000

(***************************************************************************)
(* Properties of resubmission and of the built transaction.                *)
(***************************************************************************)
\* the signature slots of a transaction that hold a signature
SignedSlots(transaction) ==
    {i \in DOMAIN transaction.signatures :
        transaction.signatures[i] # DefaultSignature}

\* send j+1 resubmits the transaction of send j after a fee bump: it carries
\* another blockhash
Resubmits(j) ==
    /\ j + 1 \in DOMAIN hist.sent
    /\ hist.sent[j + 1].index = hist.sent[j].index
    /\ hist.sent[j + 1].transaction.message.recent_blockhash
            # hist.sent[j].transaction.message.recent_blockhash

\* C31: every send attempt that follows a failed send with a fee bump uses a
\* blockhash fetched after that failure, and the resubmitted transaction is
\* re-signed over its new message by every signer that signed the original
\* transaction, fee payer and additional aliases alike: no transaction is
\* sent carrying a signature computed over an earlier blockhash or price.
C31_ResignedByAll ==
    \A j \in DOMAIN hist.sent :
        LET sent == hist.sent[j].transaction
        IN  /\ \A i \in SignedSlots(sent) : sent.signatures[i].over = sent.message
            /\ Resubmits(j) =>
                    LET again == hist.sent[j + 1].transaction
                    IN  /\ again.message.recent_blockhash
                                > sent.message.recent_blockhash
                        /\ SignedSlots(sent) \subseteq SignedSlots(again)

\* the estimate the simulator gives for a transaction, <<>> if it gives none
EstimateFor(transaction) ==
    LET estimate == EstimateComputeUnits(config.security, transaction,
                                         <<MockComputeUnits>>)
    IN  IF estimate.ok THEN <<estimate.units>> ELSE <<>>

\* C32: every transaction built by create_transactions starts with a
\* set-compute-unit-limit instruction followed by a set-compute-unit-price
\* instruction, followed by the client instructions in input order; the limit
\* is the request's fixed limit or, for the auto policy, the simulator's
\* estimate_compute_units result for that transaction, and the price is the
\* request's fixed price or, for the auto policy, the result of calculate_fee.
C32_BuiltTransaction ==
    \A k \in DOMAIN frame.transactions :
        LET transaction == frame.transactions[k]
            built == DecompiledInstructions(transaction)
            price == IF request.compute.price.kind = "Fixed"
                     THEN request.compute.price.value ELSE frame.fee_lamports
        IN  /\ Len(built) = Len(Converted.instructions) + 2
            /\ built[2] = SetComputeUnitPrice(price)
            /\ \A i \in DOMAIN Converted.instructions :
                    /\ built[i + 2].program_id = Converted.instructions[i].program_id
                    /\ built[i + 2].data = Converted.instructions[i].data
            /\ IF request.compute.limit.kind = "Fixed"
               THEN built[1] = SetComputeUnitLimit(request.compute.limit.value)
               ELSE \A units \in {EstimateFor(transaction)[i] :
                                    i \in DOMAIN EstimateFor(transaction)} :
                        built[1] = SetComputeUnitLimit(units)

(***************************************************************************)
(* Properties of the pool seen from the bundle.                            *)
(***************************************************************************)
\* the recent-prioritization-fees call was sent and has returned
FeesCallReturned ==
    "getRecentPrioritizationFees" \in hist.rpcs /\ frame.pc # "fees"
FeesCallFailed ==
    outcome.kind = "error" /\ outcome.error = Err("Rpc", "HTTP request failed")

\* C33: every outbound RPC that fails or times out, the
\* recent-prioritization-fees call included, is surfaced as an Rpc error and
\* counted as a failure of the endpoint it was sent to, and every successful
\* outbound RPC resets that endpoint's count and marks it healthy: once an
\* RPC has returned, an outcome is on record for its endpoint, and a failed
\* one has raised the endpoint's consecutive-failure count.
C33_EveryOutcomeRecorded ==
    /\ FeesCallReturned => \A e \in DOMAIN endpoints : lastOutcome[endpoints[e].url] # "none"
    /\ FeesCallFailed =>
            \A e \in DOMAIN endpoints : HealthOf(e).consecutive_failures >= 1
    /\ \A e \in DOMAIN endpoints :
            /\ lastOutcome[endpoints[e].url] = "S" => HealthOf(e) = DefaultHealth
            /\ lastOutcome[endpoints[e].url] = "F" => HealthOf(e).consecutive_failures >= 1

(***************************************************************************)
(* Properties of the fee trend.                                            *)
(***************************************************************************)
\* the last 10 (or fewer) emitted prices in insertion order, oldest first
InsertionOrderWindow(history) ==
    [i \in 1..MinOf(10, Len(history)) |->
        FromInt(history[Len(history) - MinOf(10, Len(history)) + i].fee_lamports)]

\* the direction of the line fitted through these prices with x increasing
\* with time
DirectionOverTime(history) ==
    IF Len(history) < 2 THEN "Stable"
    ELSE TrendOf(CalculateLinearRegression(InsertionOrderWindow(history))).direction

\* C34: with adaptive pricing enabled, the trend is fitted over the last 10
\* (or fewer, down to 2) previously emitted prices taken in insertion order:
\* when they increase over time with slope > 0.05 the direction is rising and
\* the adjustment factor is >= 1, when they decrease with slope < -0.05 the
\* direction is falling and the factor is <= 1, otherwise the factor is 1.
C34_TrendOverTime ==
    config.fees.adaptive =>
        /\ AnalyzeFeeTrend(fee_history).direction = DirectionOverTime(fee_history)
        /\ \A t \in FeeTasks :
                fee_calls[t].pc = "adjust" =>
                    LET base_fee == fee_calls[t].base_fee
                        adjusted == ApplyAdaptiveAdjustments(base_fee, fee_history)
                    IN  CASE DirectionOverTime(fee_history) = "Rising"
                                -> adjusted >= base_fee
                          [] DirectionOverTime(fee_history) = "Falling"
                                -> adjusted <= base_fee
                          [] OTHER -> adjusted = base_fee

(***************************************************************************)
(* Properties of the delay between attempts.                               *)
(***************************************************************************)
\* d_k = min(backoff_base_ms * 2^(k-1), backoff_max_ms)
CappedDoubling(k) == MinOf(backoff_base_ms * 2^(k - 1), backoff_max_ms)

\* delay, a whole number of milliseconds, lies within plus or minus 25% of d
\* (the lower end is read as truncated to a whole millisecond, as the delay is)
WithinQuarter(delay, d) ==
    /\ 4 * (delay - d) <= d
    /\ delay >= (3 * d) \div 4

\* C35: in execute_with_failover the delay slept after the k-th failed
\* attempt (1 <= k < max_retries + 1) lies within plus or minus 25% of
\* d_k = min(backoff_base_ms * 2^(k-1), backoff_max_ms); no delay is slept
\* after the final failed attempt or after a success.
C35_BackoffDelay ==
    \A t \in Tasks :
        /\ calls[t].pc = "loop" /\ calls[t].attempts >= 1 =>
                WithinQuarter(calls[t].backoff, CappedDoubling(calls[t].attempts))
        /\ calls[t].pc \in {"ok", "err"} => calls[t].backoff = 0

(***************************************************************************)
(* Properties of the signer set.                                           *)
(***************************************************************************)
\* the slots of a transaction that hold the signature of key over message
SlotsSignedBy(transaction, key, message) ==
    {i \in DOMAIN transaction.signatures :
        transaction.signatures[i] = [signer |-> key, over |-> message]}

\* C36: whenever sign_transaction returns Ok, the signatures slot at the
\* position of the fee payer's public key in the account keys holds the fee
\* payer's signature over the transaction's current message, and every other
\* slot is unchanged; it never returns Ok leaving the fee payer's slot unsigned.
C36_OkMeansSigned ==
    direct_call.op = "sign_transaction" /\ direct_call.result[1].ok =>
        LET before == direct_call.transaction
            after == direct_call.result[1].transaction
            i == Position(before.message.account_keys, config.signing.fee_payer.pubkey)
        IN  /\ after.message = before.message
            /\ Len(after.signatures) = Len(before.signatures)
            /\ SlotsSignedBy(after, config.signing.fee_payer.pubkey, before.message) = {i}
            /\ \A j \in DOMAIN before.signatures :
                    j # i => after.signatures[j] = before.signatures[j]

(***************************************************************************)
(* Properties of detail collection.                                        *)
(***************************************************************************)
\* what the result of a transaction carries when get_transaction answered so
CopiedFrom(answer) ==
    IF answer.ok THEN GetTransactionDetails(answer.reply) ELSE NoDetails

\* C37: for every transaction that reached processed, confirmed or finalized,
\* get_transaction is queried after confirmation and the compute units, fee
\* and logs it returns are copied into the result; an error or an empty
\* answer leaves those fields absent without changing the transaction's
\* status or setting its error field.
C37_DetailsBestEffort ==
    \A k \in DOMAIN frame.results :
        frame.results[k].status \in {"Processed", "Confirmed", "Finalized"} =>
            /\ k \in DOMAIN hist.details
            /\ frame.results[k].compute_units_consumed
                    = CopiedFrom(hist.details[k]).compute_units
            /\ frame.results[k].fee_paid_lamports
                    = CopiedFrom(hist.details[k]).fee_paid
            /\ frame.results[k].logs = CopiedFrom(hist.details[k]).logs
            /\ frame.results[k].error = <<>>

(***************************************************************************)
(* Properties of the policy check on the built transaction.                *)
(***************************************************************************)
\* C38: an instruction list accepted by validate_instructions at bundle entry
\* yields a transaction that the policy check re-run by simulate_transaction
\* does not reject: the two prepended compute-budget instructions cause
\* neither a bundle-size rejection nor an allow-list rejection.
C38_BuiltTransactionPasses ==
    \A k \in hist.simulated :
        /\ ValidateInstructions(config.security,
                ConvertInstructions(request.instructions).instructions).kind = "none"
        /\ SimulateTransaction(config.security, frame.transactions[k]).kind = "none"
        /\ Len(frame.results) >= k =>
                \/ frame.results[k].error = <<>>
                \/ frame.results[k].error[1].kind # "Simulation"

(***************************************************************************)
(* Properties of the health records under concurrency.                     *)
(***************************************************************************)
\* C39: under any interleaving of execute_with_failover calls and probes of
\* the health sweep, each endpoint is unhealthy if and only if its
\* consecutive_failures is at least 3, and no recorded outcome is lost: the
\* count equals the number of failures recorded since the last success.
C39_HealthMatchesCount ==
    \A e \in DOMAIN endpoints :
        /\ ~HealthOf(e).healthy
                <=> HealthOf(e).consecutive_failures >= UnhealthyThreshold
        /\ HealthOf(e).consecutive_failures = streak[endpoints[e].url]

\* two calls are in flight on an endpoint that calls and probes together have
\* brought to its third failure, while two sweeps are still running
C39_Witness ==
    \E e \in DOMAIN endpoints :
        /\ calls[0].pc = "picked"
        /\ calls[0].endpoint = e
        /\ calls[0].attempts = 1
        /\ calls[1].pc = "picked"
        /\ calls[1].endpoint = e
        /\ calls[1].attempts = 1
        /\ sweeps.pending[e] = 2
        /\ streak[endpoints[e].url] = 3
        /\ ~HealthOf(e).healthy

(***************************************************************************)
(* Properties of the recovery of an unhealthy endpoint.                    *)
(***************************************************************************)
\* a step in which get_best_endpoint hands endpoint e to task t
Chosen(t, e) ==
    calls[t].pc = "loop" /\ calls'[t].pc = "picked" /\ calls'[t].endpoint = e

\* an unhealthy endpoint is never chosen while another endpoint is healthy
UnhealthyNotChosen ==
    \A t \in Tasks, e \in DOMAIN endpoints :
        Chosen(t, e) /\ ~HealthOf(e).healthy => NoneHealthy(health_status)

Recovered(e) == ~HealthOf(e).healthy /\ health_status'[endpoints[e].url].healthy
\* the endpoints configured with the url of endpoint e, which share its record
SameUrl(e) == {i \in DOMAIN endpoints : endpoints[i].url = endpoints[e].url}
ByProbe(e) == \E i \in SameUrl(e) : sweeps'.pending[i] < sweeps.pending[i]
BySuccessOf(t, e) ==
    calls[t].pc = "picked" /\ calls[t].endpoint \in SameUrl(e)
        /\ calls'[t].pc = "ok"

\* C40 as stated: an unhealthy endpoint is never chosen while another is
\* healthy, and it becomes healthy again only through a successful probe of
\* the health sweep or a successful operation while it serves as the
\* all-unhealthy fallback (it was chosen as the fallback, or no endpoint is
\* healthy when the success is recorded).
C40_Original ==
    [][/\ UnhealthyNotChosen
       /\ \A e \in DOMAIN endpoints :
            Recovered(e) =>
                \/ ByProbe(e)
                \/ \E t \in Tasks :
                        /\ BySuccessOf(t, e)
                        /\ calls[t].fallback \/ NoneHealthy(health_status)]_vars

\* no operation is in flight on endpoint e
NotInFlight(e) ==
    \A t \in Tasks : ~(calls[t].pc = "picked" /\ calls[t].endpoint \in SameUrl(e))

\* every probe spawned by a health sweep has finished
NoProbePending == \A i \in DOMAIN endpoints : sweeps.pending[i] = 0

\* C40: an unhealthy endpoint is never chosen by get_best_endpoint while
\* another endpoint is healthy, and it becomes healthy again only through a
\* successful probe of the health sweep or the success of an operation that
\* holds it, chosen as the all-unhealthy fallback or chosen before it was
\* marked unhealthy; so while no sweep runs and no operation is in flight on
\* it, it stays unhealthy and unchosen as long as another endpoint is healthy.
C40_Amended ==
    [][/\ UnhealthyNotChosen
       /\ \A e \in DOMAIN endpoints :
            /\ Recovered(e) => ByProbe(e) \/ \E t \in Tasks : BySuccessOf(t, e)
            /\ (/\ ~HealthOf(e).healthy
                /\ NoProbePending
                /\ NotInFlight(e)
                /\ ~NoneHealthy(health_status))
                    => /\ ~health_status'[endpoints[e].url].healthy
                       /\ \A t \in Tasks : ~Chosen(t, e)]_vars

\* an operation holds the heavier endpoint, chosen while it was healthy and
\* marked unhealthy by failed probes since, while the lighter endpoint is
\* healthy and the sweep is over: its success will mark the endpoint healthy
C40_Witness ==
    /\ Len(endpoints) = 2
    /\ endpoints[1].weight > endpoints[2].weight
    /\ calls[0].pc = "picked"
    /\ calls[0].endpoint = 1
    /\ ~calls[0].fallback
    /\ ~HealthOf(1).healthy
    /\ HealthOf(2).healthy
    /\ NoProbePending
====
